---- MODULE Spec2Model ----
(***************************************************************************)
(* A model of the semantic front-end of flang: the ASTContext (type        *)
(* interning), the semantic analyzer Sema (declaration contexts, entity    *)
(* declarations, implicit typing) and the statement label references.      *)
(*                                                                         *)
(* Pointers are modelled as indices into the arena they were allocated     *)
(* from; 0 is the null pointer.  A failed assert(), a failed cast<>() and  *)
(* a null dereference end the run: `abnormal' records which one happened   *)
(* and no action is enabled afterwards.                                    *)
(***************************************************************************)
EXTENDS Integers, Sequences, FiniteSets, TLC

\* ------------------------------------------------------------------------
\* Bounds of the model
\* ------------------------------------------------------------------------
\* Type nodes allocated after InitBuiltinTypes.
MaxNewTypes == 2
\* Declarations created after the translation unit's own.
MaxDecls == 4
\* Diagnostics the client receives.
MaxDiags == 2
\* Statements built by the statement actions.
MaxStmts == 2
\* Statements the expression parser is handed.
MaxParsed == 1
\* Calls of getOrCreateVarDecl and getVarDecl on one context.
MaxCalls == 3
\* DiagStatePoints recorded after the one of the command line.
MaxStatePoints == 2
\* Pieces a diagnostic's format string is put together from.
MaxPieces == 2

VARIABLES
  Ctx,          \* the ASTContext: arena of type nodes and the interning tables
  TypeLog,      \* history: every type-construction request with the handle returned
  Decls,        \* the arena of declarations; a declaration context is a declaration
  CurContext,   \* Sema::CurContext
  FETokenInfo,  \* the front-end token of every identifier: a declaration or null
  Diags,        \* the diagnostics the client was handed, in order
  Stmts,        \* the arena of statements the actions returned
  abnormal,     \* "none", or how the run ended: "assert", "badcast", "nullderef"
  Engine,       \* the DiagnosticsEngine with the counters of its DiagnosticClient
  Evaluated,    \* the expression handed to EvaluateAsInt, with what it returned
  PushInfo      \* history: for every context pushed, the context and bindings before

typeVars == <<Ctx, TypeLog>>
semaVars == <<Decls, CurContext, FETokenInfo, Diags, Engine, Evaluated, Stmts, abnormal,
              PushInfo>>
vars == <<Ctx, TypeLog, Decls, CurContext, FETokenInfo, Diags, Engine, Evaluated, Stmts,
          abnormal, PushInfo>>

\* ------------------------------------------------------------------------
\* ASTContext: base types
\* ------------------------------------------------------------------------
NullExpr == 0
NullType == 0
\* The expression handles a request passes as selector or dimension.
ExprHandles == {NullExpr, 1}

TypeSpecs == <<"Integer", "Real", "DoublePrecision", "Complex", "Character", "Logical">>

\* QualType(Ty, FastQuals): a type pointer with the fast qualifiers packed in.
QualType(Ty, Fast) == [ptr |-> Ty, fast |-> Fast]

NullQualType == QualType(NullType, {})

\* A freshly constructed context: no type node yet.
EmptyContext ==
  [Nodes |-> <<>>, Types |-> <<>>,
   ExtQualNodes |-> {}, BuiltinTypes |-> {}, PointerTypes |-> {}, ArrayTypes |-> {},
   VariableDecls |-> <<>>,
   BuiltinTy |-> [k \in {} |-> NullQualType]]

\* new (*this) T(...): the arena never frees, so the node gets the next address.
NewNode(C, node) == [C EXCEPT !.Nodes = Append(@, node)]

LastNode(C) == Len(C.Nodes)

InitBuiltinType(C, K) ==
  LET C1 == NewNode(C, [tc |-> "Builtin", prof |-> <<"Builtin", K>>])
      Ty == LastNode(C1)
  IN [C1 EXCEPT !.BuiltinTy = [k \in (DOMAIN C.BuiltinTy) \cup {K} |->
                                 IF k = K THEN QualType(Ty, {}) ELSE C.BuiltinTy[k]],
                !.Types = Append(@, Ty)]

RECURSIVE InitBuiltinTypesFrom(_, _)
InitBuiltinTypesFrom(C, i) ==
  IF i > Len(TypeSpecs) THEN C
  ELSE InitBuiltinTypesFrom(InitBuiltinType(C, TypeSpecs[i]), i + 1)

InitBuiltinTypes(C) == InitBuiltinTypesFrom(C, 1)

\* The state of the context when the constructor returns.
ASTContextInit == InitBuiltinTypes(EmptyContext)

NumBuiltin == Len(ASTContextInit.Nodes)

getBuiltinQualType(C, TS) == C.BuiltinTy[TS]

\* ------------------------------------------------------------------------
\* ASTContext: type creation/memoization
\* ------------------------------------------------------------------------
\* The qualifier bits: Qualifiers keeps some of them ("fast") in the QualType
\* itself and the others in an ExtQuals node.
QualBits == {"fast", "ext"}
FastMask == {"fast"}
getFastQualifiers(Quals) == Quals \cap FastMask
removeFastQualifiers(Quals) == Quals \ FastMask

\* The profiles handed to the folding sets.
ExtQualsProfile(BaseType, Quals, KindSel) == <<"ExtQuals", BaseType, Quals, KindSel>>
CharacterProfile(Len_, Kind) == <<"Character", Len_, Kind>>
PointerProfile(Ty, NumDims) == <<"Pointer", Ty, NumDims>>
ArrayProfile(Ty, Dims) == <<"Array", Ty, Dims>>

\* FoldingSet::FindNodeOrInsertPos: the node of the set with this profile, or null.
FindNodeOrInsertPos(C, Set, ID) ==
  IF \E n \in Set : C.Nodes[n].prof = ID
  THEN CHOOSE n \in Set : C.Nodes[n].prof = ID
  ELSE NullType

\* Every Type node built here is its own canonical type.
isCanonicalUnqualified(C, BaseType) == TRUE

RECURSIVE getExtQualType(_, _, _, _)
getExtQualType(C, BaseType, Quals, KindSel) ==
  LET FastQuals == getFastQualifiers(Quals)
      Q == removeFastQualifiers(Quals)
      ID == ExtQualsProfile(BaseType, Q, KindSel)
      EQ == FindNodeOrInsertPos(C, C.ExtQualNodes, ID)
  IN IF EQ # NullType
     THEN [C |-> C, R |-> QualType(EQ, FastQuals)]
     ELSE LET C0 == IF ~isCanonicalUnqualified(C, BaseType)
                    THEN getExtQualType(C, BaseType, Q, KindSel).C
                    ELSE C
              C1 == NewNode(C0, [tc |-> "ExtQuals", prof |-> ID])
          IN [C |-> [C1 EXCEPT !.ExtQualNodes = @ \cup {LastNode(C1)}],
              R |-> QualType(LastNode(C1), FastQuals)]

getCharacterBuiltinType(C, Len_, Kind) ==
  LET ID == CharacterProfile(Len_, Kind)
      BT == FindNodeOrInsertPos(C, C.BuiltinTypes, ID)
  IN IF BT # NullType
     THEN [C |-> C, R |-> BT]
     ELSE LET C1 == NewNode(C, [tc |-> "CharacterBuiltin", prof |-> ID])
              New == LastNode(C1)
          IN [C |-> [C1 EXCEPT !.Types = Append(@, New),
                               !.BuiltinTypes = @ \cup {New}],
              R |-> New]

\* A getPointerType that ignores the dimension count when it looks the node up.
getPointerTypeIgnoringDims(C, Ty, NumDims) ==
  LET Same == {n \in C.PointerTypes : C.Nodes[n].prof[2] = Ty}
  IN IF Same # {}
     THEN [C |-> C, R |-> CHOOSE n \in Same : TRUE]
     ELSE LET C1 == NewNode(C, [tc |-> "Pointer", prof |-> PointerProfile(Ty, NumDims)])
              New == LastNode(C1)
          IN [C |-> [C1 EXCEPT !.Types = Append(@, New),
                               !.PointerTypes = @ \cup {New}],
              R |-> New]

getPointerType(C, Ty, NumDims) ==
  LET ID == PointerProfile(Ty, NumDims)
      PT == FindNodeOrInsertPos(C, C.PointerTypes, ID)
  IN IF PT # NullType
     THEN [C |-> C, R |-> PT]
     ELSE LET C1 == NewNode(C, [tc |-> "Pointer", prof |-> ID])
              New == LastNode(C1)
          IN [C |-> [C1 EXCEPT !.Types = Append(@, New),
                               !.PointerTypes = @ \cup {New}],
              R |-> New]

getArrayType(C, Ty, Dims) ==
  LET ID == ArrayProfile(Ty, Dims)
      AT == FindNodeOrInsertPos(C, C.ArrayTypes, ID)
  IN IF AT # NullType
     THEN [C |-> C, R |-> AT]
     ELSE LET C1 == NewNode(C, [tc |-> "Array", prof |-> ID])
              New == LastNode(C1)
          IN [C |-> [C1 EXCEPT !.Types = Append(@, New),
                               !.ArrayTypes = @ \cup {New}],
              R |-> New]

\* ------------------------------------------------------------------------
\* Type-construction requests on one translation unit
\* ------------------------------------------------------------------------
\* The Type nodes a request may name as its base, pointee or element type.
RequestedBuiltins == {"Integer", "Character"}

TypePtrs(C) ==
  {getBuiltinQualType(C, k).ptr : k \in RequestedBuiltins}
    \cup {C.Types[i] : i \in (NumBuiltin + 1)..Len(C.Types)}

DimCounts == {0, 1}

DimLists == {<<>>, <<1>>}

getBuiltinTypeQualified(C, TS, Kind) ==
  getExtQualType(C, getBuiltinQualType(C, TS).ptr, {}, Kind)

getBuiltinType(C, TS, Kind) ==
  LET Ty == getBuiltinQualType(C, TS)
  IN IF Kind = NullExpr
     THEN [C |-> C, R |-> Ty]
     ELSE getExtQualType(C, Ty.ptr, {}, Kind)

WithinTypeBound(C) == Len(C.Nodes) <= NumBuiltin + MaxNewTypes

Logged(req, prof, ptr, fast) == [req |-> req, prof |-> prof, ptr |-> ptr, fast |-> fast]

GetExtQualType(BaseType, Quals, KindSel) ==
  LET res == getExtQualType(Ctx, BaseType, Quals, KindSel)
  IN /\ WithinTypeBound(res.C)
     /\ Ctx' = res.C
     /\ UNCHANGED semaVars
     /\ TypeLog' = TypeLog \cup
          {Logged(ExtQualsProfile(BaseType, Quals, KindSel),
                  ExtQualsProfile(BaseType, removeFastQualifiers(Quals), KindSel),
                  res.R.ptr, res.R.fast)}

GetCharacterBuiltinType(Len_, Kind) ==
  LET res == getCharacterBuiltinType(Ctx, Len_, Kind)
  IN /\ WithinTypeBound(res.C)
     /\ Ctx' = res.C
     /\ UNCHANGED semaVars
     /\ TypeLog' = TypeLog \cup
          {Logged(CharacterProfile(Len_, Kind), CharacterProfile(Len_, Kind), res.R, {})}

GetPointerType(Ty, NumDims) ==
  LET res == getPointerType(Ctx, Ty, NumDims)
  IN /\ WithinTypeBound(res.C)
     /\ Ctx' = res.C
     /\ UNCHANGED semaVars
     /\ TypeLog' = TypeLog \cup
          {Logged(PointerProfile(Ty, NumDims), PointerProfile(Ty, NumDims), res.R, {})}

GetArrayType(Ty, Dims) ==
  LET res == getArrayType(Ctx, Ty, Dims)
  IN /\ WithinTypeBound(res.C)
     /\ Ctx' = res.C
     /\ UNCHANGED semaVars
     /\ TypeLog' = TypeLog \cup
          {Logged(ArrayProfile(Ty, Dims), ArrayProfile(Ty, Dims), res.R, {})}

\* ------------------------------------------------------------------------
\* Identifiers, locations, declarations
\* ------------------------------------------------------------------------
\* An identifier is the sequence of its character codes (getNameStart());
\* the null IdentifierInfo pointer is the empty sequence.
NullId == <<>>
IdLowerI == <<105>>
IdLowerX == <<120>>
IdUpperN == <<78>>
IdLowerH == <<104>>
IdUpperO == <<79>>

\* The identifiers of the declaration actions, and the larger set the
\* implicit-typing actions draw from.
Names == {IdLowerI, IdLowerX}
AllNames == Names \cup {IdUpperN, IdLowerH, IdUpperO}

NullDecl == 0
NullLoc == 0

\* TranslationUnitDecl::Create(*this) in the ASTContext constructor.
TUDecl == 1

\* A declaration; `by' is history: the action that created it.
DeclRecord(kind, DC, Loc, IDInfo, T, by) ==
  [kind |-> kind, ctx |-> DC, loc |-> Loc, name |-> IDInfo, type |-> T,
   param |-> FALSE, decls |-> <<>>, by |-> by]

\* X::Create(C, DC, Loc, IDInfo, T): a new declaration at the end of the arena.
VarDeclCreate(D, DC, Loc, IDInfo, T, by) ==
  Append(D, DeclRecord("Var", DC, Loc, IDInfo, T, by))
FieldDeclCreate(D, DC, Loc, IDInfo, T) ==
  Append(D, DeclRecord("Field", DC, Loc, IDInfo, T, "ActOnDerivedTypeFieldDecl"))
RecordDeclCreate(D, DC, Loc, IDInfo) ==
  Append(D, DeclRecord("Record", DC, Loc, IDInfo, NullQualType, "ActOnDerivedTypeDecl"))
MainProgramDeclCreate(D, DC, Loc, IDInfo) ==
  Append(D, DeclRecord("MainProgram", DC, Loc, IDInfo, NullQualType, "ActOnMainProgram"))

\* DeclContext::addDecl: the declaration goes to the end of the context's list.
addDecl(D, DC, d) == [D EXCEPT ![DC].decls = Append(@, d)]

setFETokenInfo(FE, IDInfo, d) == [FE EXCEPT ![IDInfo] = d]

\* VarDecl::isParameter() as EmitVarDecl asks it before it allocates storage.
isParameter(D, d) == D[d].param

\* The type of a constant expression handed to the analyzer: expression 1 is
\* an integer constant, every other one a real constant.
ExprType(C, E) ==
  IF E = 1 THEN getBuiltinQualType(C, "Integer") ELSE getBuiltinQualType(C, "Real")

\* ------------------------------------------------------------------------
\* Sema: declaration specifiers and types
\* ------------------------------------------------------------------------
DeclSpec(tst, attrs, kind, len) == [tst |-> tst, attrs |-> attrs, kind |-> kind, len |-> len]

\* DeclSpec DS; as default-constructed.
DefaultDeclSpec == DeclSpec("TST_unspecified", {}, NullExpr, NullExpr)

SetTypeSpecType(DS, tst) == [DS EXCEPT !.tst = tst]

hasAttributes(DS) == DS.attrs # {}

TypeSpecResult(C, tst) ==
  CASE tst = "TST_integer" -> getBuiltinQualType(C, "Integer")
    [] tst \in {"TST_unspecified", "TST_real"} -> getBuiltinQualType(C, "Real")
    [] tst = "TST_doubleprecision" -> getBuiltinQualType(C, "DoublePrecision")
    [] tst = "TST_character" -> getBuiltinQualType(C, "Character")
    [] tst = "TST_logical" -> getBuiltinQualType(C, "Logical")
    [] tst = "TST_complex" -> getBuiltinQualType(C, "Complex")
    [] OTHER -> NullQualType

\* The definition of getExtQualType takes no length selector: the one
\* ActOnTypeName passes does not reach the profile.
ActOnTypeName(C, DS) ==
  LET Result == TypeSpecResult(C, DS.tst)
  IN IF ~hasAttributes(DS)
     THEN [C |-> C, R |-> Result]
     ELSE getExtQualType(C, Result.ptr, DS.attrs, DS.kind)

\* ActOnTypeName and getBuiltinType as requests against the context; the log
\* keeps the whole request, length selector included, beside the handle.
OnTypeName(DS) ==
  LET res == ActOnTypeName(Ctx, DS)
  IN /\ WithinTypeBound(res.C)
     /\ Ctx' = res.C
     /\ UNCHANGED semaVars
     /\ TypeLog' = TypeLog \cup
          {Logged(<<"ActOnTypeName", DS>>,
                  ExtQualsProfile(TypeSpecResult(Ctx, DS.tst).ptr,
                                  removeFastQualifiers(DS.attrs), DS.kind),
                  res.R.ptr, res.R.fast)}

GetBuiltinType(TS, Kind) ==
  LET res == getBuiltinType(Ctx, TS, Kind)
  IN /\ WithinTypeBound(res.C)
     /\ Ctx' = res.C
     /\ UNCHANGED semaVars
     /\ TypeLog' = TypeLog \cup
          {Logged(<<"getBuiltinType", TS, Kind>>,
                  ExtQualsProfile(getBuiltinQualType(Ctx, TS).ptr, {}, Kind),
                  res.R.ptr, res.R.fast)}

\* ------------------------------------------------------------------------
\* Sema: the declaration context stack
\* ------------------------------------------------------------------------
getContainingDC(D, DC) == D[DC].ctx

\* PushDeclContext with its assertion compiled out.
PushDeclContextUnchecked(D, Cur, DC) == [abnormal |-> "none", CurContext |-> DC]

PushDeclContext(D, Cur, DC) ==
  IF getContainingDC(D, DC) = Cur
  THEN [abnormal |-> "none", CurContext |-> DC]
  ELSE [abnormal |-> "assert", CurContext |-> Cur]

\* PopDeclContext without the assertion on the context popped to.
PopDeclContextUnchecked(D, Cur) ==
  IF Cur = NullDecl
  THEN [abnormal |-> "assert", CurContext |-> Cur]
  ELSE [abnormal |-> "none", CurContext |-> getContainingDC(D, Cur)]

PopDeclContext(D, Cur) ==
  IF Cur = NullDecl
  THEN [abnormal |-> "assert", CurContext |-> Cur]
  ELSE LET DC == getContainingDC(D, Cur)
       IN [abnormal |-> IF DC # NullDecl THEN "none" ELSE "assert", CurContext |-> DC]

\* A diagnostic as the client receives it: level, location, and the message
\* with the name it quotes.
Diag(level, Loc, msg, name) == [level |-> level, loc |-> Loc, msg |-> msg, name |-> name]

\* DiagnosticsEngine::Level, in the order of the enumeration.
Levels == <<"ignored", "note", "warning", "error", "fatal">>

LevelRank(l) == CHOOSE i \in 1..Len(Levels) : Levels[i] = l

\* The diagnostics whose mapping can be changed, and the mappings.
DiagKinds == {"warn_a", "warn_b"}

Mappings == {"MAP_IGNORE", "MAP_WARNING", "MAP_ERROR", "MAP_FATAL"}

\* CurDiagID when no diagnostic is in flight: ~0U, the unsigned value of -1.
NoCurDiag == -1

\* A DiagState without mapping changes.
DiagState == [d \in DiagKinds |-> "MAP_NONE"]

\* DiagStatePoint(State, Loc): the state that is active from Loc on; State is
\* the position of the state in the list DiagStates, which never moves.
DiagStatePoint(State, Loc) == [State |-> State, Loc |-> Loc]

\* SourceLocation::isValid: a default-constructed location is the null pointer.
isValid(L) == L # NullLoc

DiagnosticClientInit == [NumWarnings |-> 0, NumErrors |-> 0]

\* The engine after DiagnosticsEngine::Reset, around the client it reports to.
EngineReset(Client) ==
  [ErrorOccurred |-> FALSE, UncompilableErrorOccurred |-> FALSE,
   FatalErrorOccurred |-> FALSE, UnrecoverableErrorOccurred |-> FALSE,
   NumWarnings |-> 0, NumErrors |-> 0, DiagStates |-> <<DiagState>>,
   DiagStatePoints |-> <<DiagStatePoint(1, NullLoc)>>,
   CurDiagID |-> NoCurDiag, DelayedDiagID |-> 0,
   DelayedDiagArg1 |-> <<>>, DelayedDiagArg2 |-> <<>>,
   Client |-> Client]

EngineInit == EngineReset(DiagnosticClientInit)

IncludeInDiagnosticCounts == TRUE

HandleDiagnosticErrorOnly(Client, DiagLevel) ==
  IF ~IncludeInDiagnosticCounts
  THEN Client
  ELSE IF DiagLevel = "warning"
  THEN [Client EXCEPT !.NumWarnings = @ + 1]
  ELSE IF DiagLevel = "error"
  THEN [Client EXCEPT !.NumErrors = @ + 1]
  ELSE Client

HandleDiagnostic(Client, DiagLevel) ==
  IF ~IncludeInDiagnosticCounts
  THEN Client
  ELSE IF DiagLevel = "warning"
  THEN [Client EXCEPT !.NumWarnings = @ + 1]
  ELSE IF LevelRank(DiagLevel) >= LevelRank("error")
  THEN [Client EXCEPT !.NumErrors = @ + 1]
  ELSE Client

RECURSIVE HandleDiagnostics(_, _)
HandleDiagnostics(Client, ds) ==
  IF ds = <<>>
  THEN Client
  ELSE HandleDiagnostics(HandleDiagnostic(Client, Head(ds).level), Tail(ds))

hadErrors(E) == E.Client.NumErrors # 0

hadWarnings(E) == E.Client.NumWarnings # 0

\* The location of the token the parser hands over: the parse stream is read
\* in source order, so it lies beyond every location recorded so far, in a
\* declaration or in a diagnostic.
NextLoc == Len(Decls) + Len(Diags)

Running == abnormal = "none"

\* The parser opens the translation unit before it calls anything else.
Begun == TUDecl \in DOMAIN PushInfo

CanDeclare == Len(Decls) < 1 + MaxDecls
CanReport(n) == Len(Diags) + n <= MaxDiags

\* The analyzer's state when the constructors have returned.
InitDecls ==
  <<DeclRecord("TranslationUnit", NullDecl, NullLoc, NullId, NullQualType, "ASTContext")>>
InitFETokenInfo == [n \in AllNames |-> NullDecl]

\* The process is gone and nothing of the analyzer's state is left.
\* An APInt: a value of BitWidth bits; an expression that is no integer
\* constant has none.
APInt(BitWidth, V) == [BitWidth |-> BitWidth, V |-> V]

NoAPInt == APInt(0, 0)

\* An expression node: its class, its type, the variable of a VarExpr, the
\* operator of a BinaryExpr, the nodes it holds, the value of a constant.
ExprNode(class, T, var, op, sub) ==
  [class |-> class, type |-> T, var |-> var, op |-> op, sub |-> sub, val |-> NoAPInt]

\* What EvaluateAsInt hands back: whether it could fold, and Result.
Evaluation(E, ok, Result) == [E |-> E, ok |-> ok, Result |-> Result]

\* An empty ExprResult.
NoExpr == ExprNode("NoExprClass", NullQualType, 0, "None", <<>>)

NoEvaluation == Evaluation(NoExpr, FALSE, 0)

\* The client is handed the diagnostics ds, in order.
Reported(ds) ==
  /\ Diags' = Diags \o ds
  /\ Engine' = [Engine EXCEPT !.Client = HandleDiagnostics(@, ds)]

Gone ==
  /\ Decls' = InitDecls
  /\ CurContext' = NullDecl
  /\ FETokenInfo' = InitFETokenInfo
  /\ Diags' = <<>>
  /\ Engine' = EngineInit
  /\ Evaluated' = NoEvaluation
  /\ Stmts' = <<>>
  /\ PushInfo' = <<>>

\* The run ends in a failed assertion, a failed cast or a null dereference.
Abort(kind) ==
  /\ abnormal' = kind
  /\ Gone
  /\ UNCHANGED <<Ctx, TypeLog>>

Pushed(DC) == (DC :> [from |-> CurContext, fe |-> FETokenInfo]) @@ PushInfo

ActOnTranslationUnit ==
  /\ Running /\ ~Begun
  /\ LET push == PushDeclContext(Decls, CurContext, TUDecl)
     IN IF push.abnormal = "none"
        THEN /\ CurContext' = push.CurContext
             /\ PushInfo' = Pushed(TUDecl)
             /\ UNCHANGED <<Evaluated, Ctx, TypeLog, Decls, FETokenInfo, Diags, Engine, Stmts, abnormal>>
        ELSE Abort(push.abnormal)

ActOnEndProgramUnit ==
  /\ Running /\ Begun
  /\ LET pop == PopDeclContext(Decls, CurContext)
     IN IF pop.abnormal = "none"
        THEN /\ CurContext' = pop.CurContext
             /\ UNCHANGED <<Evaluated, Ctx, TypeLog, Decls, FETokenInfo, Diags, Engine, Stmts, abnormal, PushInfo>>
        ELSE Abort(pop.abnormal)

ActOnMainProgram(IDInfo) ==
  /\ Running /\ Begun
  /\ CanDeclare
  /\ LET D1 == MainProgramDeclCreate(Decls, TUDecl, NextLoc, IDInfo)
         DC == Len(D1)
         push == PushDeclContext(D1, CurContext, DC)
     IN IF push.abnormal = "none"
        THEN /\ Decls' = D1
             /\ CurContext' = push.CurContext
             /\ PushInfo' = Pushed(DC)
             /\ UNCHANGED <<Evaluated, Ctx, TypeLog, FETokenInfo, Diags, Engine, Stmts, abnormal>>
        ELSE Abort(push.abnormal)

\* The open program has a name, END PROGRAM has one, and they differ.
EndNameReportedIfDifferent(ProgName, ID) == ProgName # ID

EndNameReported(ProgName, ID) ==
  IF ProgName = NullId THEN FALSE
  ELSE IF ID = NullId THEN FALSE
  ELSE ProgName # ID

ActOnEndMainProgram(IDInfo) ==
  /\ Running /\ Begun
  /\ IF CurContext = NullDecl
     THEN Abort("assert")
     ELSE IF Decls[CurContext].kind # "MainProgram"
     THEN Abort("badcast")
     ELSE LET pop == PopDeclContext(Decls, CurContext)
          IN IF pop.abnormal # "none"
             THEN Abort(pop.abnormal)
             ELSE /\ IF EndNameReported(Decls[CurContext].name, IDInfo)
                     THEN /\ CanReport(1)
                          /\ Reported(<<Diag("error", NextLoc, "expected label",
                                              Decls[CurContext].name)>>)
                     ELSE UNCHANGED <<Diags, Engine>>
                  /\ CurContext' = pop.CurContext
                  /\ UNCHANGED <<Evaluated, Ctx, TypeLog, Decls, FETokenInfo, Stmts, abnormal, PushInfo>>

\* The name is bound to a variable of the current context.
IsRedeclarationAnywhere(D, Prev, Cur) == Prev # NullDecl

IsRedeclaration(D, Prev, Cur) == Prev # NullDecl /\ D[Prev].ctx = Cur

\* A declaring action that lists the variable but does not bind the name to it.
DeclareVarUnbound(D, FE, Cur, Loc, IDInfo, T, by) ==
  LET D1 == VarDeclCreate(D, Cur, Loc, IDInfo, T, by)
  IN [Decls |-> addDecl(D1, Cur, Len(D1)), FE |-> FE, VD |-> Len(D1)]

\* VarDecl::Create, addDecl and setFETokenInfo as the declaring actions do them.
DeclareVar(D, FE, Cur, Loc, IDInfo, T, by) ==
  LET D1 == VarDeclCreate(D, Cur, Loc, IDInfo, T, by)
      VD == Len(D1)
  IN [Decls |-> addDecl(D1, Cur, VD), FE |-> setFETokenInfo(FE, IDInfo, VD), VD |-> VD]

\* The body of ActOnEntityDecl; `by' names the action the parser called.
EntityDecl(by, DS, IDInfo) ==
  LET Prev == FETokenInfo[IDInfo]
  IN IF IsRedeclaration(Decls, Prev, CurContext)
     THEN /\ CanReport(2)
          /\ Reported(<<Diag("error", NextLoc, "already declared", IDInfo),
                       Diag("note", Decls[Prev].loc, "previous declaration", NullId)>>)
          /\ UNCHANGED <<Evaluated, Ctx, TypeLog, Decls, CurContext, FETokenInfo, Stmts, abnormal, PushInfo>>
     ELSE IF CurContext = NullDecl
     THEN Abort("nullderef")
     ELSE /\ CanDeclare
          /\ LET tn == ActOnTypeName(Ctx, DS)
                 new == DeclareVar(Decls, FETokenInfo, CurContext, NextLoc, IDInfo, tn.R, by)
             IN /\ Ctx' = tn.C
                /\ Decls' = new.Decls
                /\ FETokenInfo' = new.FE
          /\ UNCHANGED <<Evaluated, TypeLog, CurContext, Diags, Engine, Stmts, abnormal, PushInfo>>

ActOnEntityDecl(DS, IDInfo) ==
  /\ Running /\ Begun
  /\ EntityDecl("ActOnEntityDecl", DS, IDInfo)

toupper(c) == IF c >= 97 /\ c <= 122 THEN c - 32 ELSE c

\* An implicit type rule that compares the first character as it is written.
ImplicitTypeSpecCaseSensitive(IDInfo) ==
  LET letter == IDInfo[1]
  IN IF letter >= 73 /\ letter <= 78 THEN "TST_integer" ELSE "TST_real"

ImplicitTypeSpec(IDInfo) ==
  LET letter == toupper(IDInfo[1])
  IN IF letter >= 73 /\ letter <= 78 THEN "TST_integer" ELSE "TST_real"

ActOnImplicitEntityDecl(IDInfo) ==
  /\ Running /\ Begun
  /\ EntityDecl("ActOnImplicitEntityDecl",
                SetTypeSpecType(DefaultDeclSpec, ImplicitTypeSpec(IDInfo)), IDInfo)

\* What reading the type through the null expression of an empty ExprResult
\* yields when the read does not fault.
GarbageTypes == {NullQualType}

ActOnPARAMETERPair(IDInfo, CE) ==
  /\ Running /\ Begun
  /\ LET Prev == FETokenInfo[IDInfo]
     IN IF Prev # NullDecl
        THEN /\ CanReport(2)
             /\ Reported(<<Diag("error", NextLoc, "already defined", IDInfo),
                          Diag("note", Decls[Prev].loc, "previous definition", NullId)>>)
             /\ UNCHANGED <<Evaluated, Ctx, TypeLog, Decls, CurContext, FETokenInfo, Stmts, abnormal,
                            PushInfo>>
        ELSE \/ /\ CE = NullExpr \/ CurContext = NullDecl
                /\ Abort("nullderef")
             \/ /\ CurContext # NullDecl
                /\ CanDeclare
                /\ \E T \in IF CE = NullExpr THEN GarbageTypes ELSE {ExprType(Ctx, CE)} :
                     LET new == DeclareVar(Decls, FETokenInfo, CurContext, NextLoc, IDInfo, T,
                                           "ActOnPARAMETERPair")
                     IN /\ Decls' = new.Decls
                        /\ FETokenInfo' = new.FE
                /\ UNCHANGED <<Evaluated, Ctx, TypeLog, CurContext, Diags, Engine, Stmts, abnormal, PushInfo>>

ActOnDerivedTypeDecl(IDInfo) ==
  /\ Running /\ Begun
  /\ IF CurContext = NullDecl
     THEN Abort("nullderef")
     ELSE /\ CanDeclare
          /\ LET D1 == RecordDeclCreate(Decls, CurContext, NextLoc, IDInfo)
                 Record == Len(D1)
                 D2 == addDecl(D1, CurContext, Record)
                 push == PushDeclContext(D2, CurContext, Record)
             IN IF push.abnormal = "none"
                THEN /\ Decls' = D2
                     /\ CurContext' = push.CurContext
                     /\ PushInfo' = Pushed(Record)
                     /\ UNCHANGED <<Evaluated, Ctx, TypeLog, FETokenInfo, Diags, Engine, Stmts, abnormal>>
                ELSE Abort(push.abnormal)

\* The field action with the check of the FIXME: a name the record already has
\* as a field is reported and not declared.
ActOnDerivedTypeFieldDeclChecked(DS, IDInfo) ==
  /\ Running /\ Begun
  /\ IF CurContext = NullDecl
     THEN Abort("nullderef")
     ELSE IF \E i \in DOMAIN Decls[CurContext].decls :
               /\ Decls[Decls[CurContext].decls[i]].kind = "Field"
               /\ Decls[Decls[CurContext].decls[i]].name = IDInfo
     THEN /\ CanReport(1)
          /\ Reported(<<Diag("error", NextLoc, "duplicate field", IDInfo)>>)
          /\ UNCHANGED <<Evaluated, Ctx, TypeLog, Decls, CurContext, FETokenInfo, Stmts, abnormal,
                         PushInfo>>
     ELSE /\ CanDeclare
          /\ LET tn == ActOnTypeName(Ctx, DS)
                 D1 == FieldDeclCreate(Decls, CurContext, NextLoc, IDInfo, tn.R)
                 Field == Len(D1)
             IN /\ Ctx' = tn.C
                /\ Decls' = addDecl(D1, CurContext, Field)
          /\ UNCHANGED <<Evaluated, TypeLog, CurContext, FETokenInfo, Diags, Engine, Stmts, abnormal, PushInfo>>

ActOnDerivedTypeFieldDecl(DS, IDInfo) ==
  /\ Running /\ Begun
  /\ IF CurContext = NullDecl
     THEN Abort("nullderef")
     ELSE /\ CanDeclare
          /\ LET tn == ActOnTypeName(Ctx, DS)
                 D1 == FieldDeclCreate(Decls, CurContext, NextLoc, IDInfo, tn.R)
                 Field == Len(D1)
             IN /\ Ctx' = tn.C
                /\ Decls' = addDecl(D1, CurContext, Field)
          /\ UNCHANGED <<Evaluated, TypeLog, CurContext, FETokenInfo, Diags, Engine, Stmts, abnormal, PushInfo>>

ActOnEndDerivedTypeDecl ==
  /\ Running /\ Begun
  /\ LET pop == PopDeclContext(Decls, CurContext)
     IN IF pop.abnormal = "none"
        THEN /\ CurContext' = pop.CurContext
             /\ UNCHANGED <<Evaluated, Ctx, TypeLog, Decls, FETokenInfo, Diags, Engine, Stmts, abnormal, PushInfo>>
        ELSE Abort(pop.abnormal)

\* ------------------------------------------------------------------------
\* Expressions
\* ------------------------------------------------------------------------
\* VarExpr::Create(C, L, V): the expression has the variable's type.
VarExprCreate(D, V) == ExprNode("VarExprClass", D[V].type, V, "None", <<>>)

\* A numeric literal of base type K.
ConstantExprCreate(C, class, K) ==
  ExprNode(class, getBuiltinQualType(C, K), 0, "None", <<>>)

\* ImplicitCastExpr::Create(C, Loc, Dest, E)
ImplicitCastExprCreate(Dest, E) == ExprNode("ImplicitCastExprClass", Dest, 0, "None", <<E>>)

\* BinaryExpr::Create(C, Loc, Op, Type, LHS, RHS)
BinaryExprCreate(Op, T, LHS, RHS) == ExprNode("BinaryExprClass", T, 0, Op, <<LHS, RHS>>)

\* The arithmetic ladder: Integer, Real, DoublePrecision, Complex.
Ladder == <<"Integer", "Real", "DoublePrecision", "Complex">>

\* The position of a base type on the ladder.
Rank(C, T) == CHOOSE i \in 1..Len(Ladder) : getBuiltinQualType(C, Ladder[i]) = T

\* on-binary-op that converts the left operand whatever the operand types.
ActOnBinaryExprCastsLeft(C, Op, LHS, RHS) ==
  IF LHS.type = RHS.type
  THEN BinaryExprCreate(Op, LHS.type, LHS, RHS)
  ELSE BinaryExprCreate(Op, RHS.type, ImplicitCastExprCreate(RHS.type, LHS), RHS)

\* on-binary-op over arithmetic operands: the narrower operand is converted to
\* the type of the wider one, which is the type of the result.
ActOnBinaryExpr(C, Op, LHS, RHS) ==
  IF LHS.type = RHS.type
  THEN BinaryExprCreate(Op, LHS.type, LHS, RHS)
  ELSE IF Rank(C, LHS.type) < Rank(C, RHS.type)
  THEN BinaryExprCreate(Op, RHS.type, ImplicitCastExprCreate(RHS.type, LHS), RHS)
  ELSE BinaryExprCreate(Op, LHS.type, LHS, ImplicitCastExprCreate(LHS.type, RHS))

\* ------------------------------------------------------------------------
\* Sema: statements
\* ------------------------------------------------------------------------
\* The statement labels a program writes.
StmtLabels == {10, 20}

\* StmtLabelReference(): a reference that holds no statement yet; `label' is
\* the label token it is to be resolved from.
StmtLabelReference(label) == [Statement |-> 0, label |-> label]

\* A statement; `unit' is history: the context that was current when the
\* action built it.
StmtRecord(kind, StmtLabel, unit) ==
  [kind |-> kind, label |-> StmtLabel, unit |-> unit,
   ty |-> NullQualType, letters |-> <<>>, none |-> FALSE, dest |-> <<>>,
   lhs |-> NoExpr, rhs |-> NoExpr, toks |-> <<>>]

\* ImplicitStmt::Create(C, L, T, SpecList, StmtLabel)
ImplicitStmtCreate(S, T, SpecList, StmtLabel, unit) ==
  Append(S, [StmtRecord("Implicit", StmtLabel, unit) EXCEPT !.ty = T, !.letters = SpecList])

\* ImplicitStmt::Create(C, L, StmtLabel): IMPLICIT NONE
ImplicitNoneStmtCreate(S, StmtLabel, unit) ==
  Append(S, [StmtRecord("Implicit", StmtLabel, unit) EXCEPT !.none = TRUE])

ContinueStmtCreate(S, StmtLabel, unit) ==
  Append(S, StmtRecord("Continue", StmtLabel, unit))

\* GotoStmt::Create, AssignStmt::Create, AssignedGotoStmt::Create with the
\* references they are given.
LabelRefStmtCreate(S, kind, refs, StmtLabel, unit) ==
  Append(S, [StmtRecord(kind, StmtLabel, unit) EXCEPT !.dest = refs])

CanAddStmt == Len(Stmts) < MaxStmts

ActOnIMPLICIT(DS, LetterSpecs) ==
  /\ Running /\ Begun
  /\ CanAddStmt
  /\ LET tn == ActOnTypeName(Ctx, DS)
     IN /\ Ctx' = tn.C
        /\ Stmts' = ImplicitStmtCreate(Stmts, tn.R, LetterSpecs, NullExpr, CurContext)
  /\ UNCHANGED <<Evaluated, TypeLog, Decls, CurContext, FETokenInfo, Diags, Engine, abnormal, PushInfo>>

ActOnIMPLICITNone ==
  /\ Running /\ Begun
  /\ CanAddStmt
  /\ Stmts' = ImplicitNoneStmtCreate(Stmts, NullExpr, CurContext)
  /\ UNCHANGED <<Evaluated, Ctx, TypeLog, Decls, CurContext, FETokenInfo, Diags, Engine, abnormal, PushInfo>>

ActOnContinueStmt(StmtLabel) ==
  /\ Running /\ Begun
  /\ CanAddStmt
  /\ Stmts' = ContinueStmtCreate(Stmts, StmtLabel, CurContext)
  /\ UNCHANGED <<Evaluated, Ctx, TypeLog, Decls, CurContext, FETokenInfo, Diags, Engine, abnormal, PushInfo>>

\* on-goto, on-assign, on-assigned-goto: the statement is built with references
\* still to be resolved from their label tokens.
ActOnLabelRefStmt(kind, targets) ==
  /\ Running /\ Begun
  /\ CanAddStmt
  /\ Stmts' = LabelRefStmtCreate(Stmts, kind,
                                 [i \in 1..Len(targets) |-> StmtLabelReference(targets[i])],
                                 NullExpr, CurContext)
  /\ UNCHANGED <<Evaluated, Ctx, TypeLog, Decls, CurContext, FETokenInfo, Diags, Engine, abnormal, PushInfo>>

\* AssignmentStmt::Create(C, LHS, RHS, StmtLabel)
AssignmentStmtCreate(S, LHS, RHS, StmtLabel, unit) ==
  Append(S, [StmtRecord("Assignment", StmtLabel, unit) EXCEPT !.lhs = LHS, !.rhs = RHS])

ActOnAssignmentStmt(LHS, RHS) ==
  /\ Running /\ Begun
  /\ CanAddStmt
  /\ Stmts' = AssignmentStmtCreate(Stmts, LHS, RHS, NullExpr, CurContext)
  /\ UNCHANGED <<Evaluated, Ctx, TypeLog, Decls, CurContext, FETokenInfo, Diags, Engine, abnormal, PushInfo>>

\* ------------------------------------------------------------------------
\* Specifications
\* ------------------------------------------------------------------------
\* The state when the ASTContext and Sema constructors have returned.
\* ------------------------------------------------------------------------
\* The expression parser
\* ------------------------------------------------------------------------
IdUpperX == <<88>>
IdUpperY == <<89>>
IdUpperZ == <<90>>
IdUpperW == <<87>>

ParserNames == <<IdUpperX, IdUpperY, IdUpperZ, IdUpperW>>

Tok(kind, id) == [kind |-> kind, id |-> id]

Ident(id) == Tok("identifier", id)

Punct(kind) == Tok(kind, NullId)

\* The BinaryExpr::Operator of an operator token.
BinaryOperator(kind) ==
  CASE kind = "plus" -> "Plus"
    [] kind = "minus" -> "Minus"
    [] kind = "star" -> "Multiply"
    [] kind = "slash" -> "Divide"
    [] kind = "starstar" -> "Power"
    [] kind = "equalequal" -> "Equal"
    [] kind = "less" -> "LessThan"
    [] kind = "greater" -> "GreaterThan"
    [] OTHER -> "None"

IsRelational(Op) == Op \in {"Equal", "LessThan", "GreaterThan"}

UnaryExprCreate(Op, E) == ExprNode("UnaryExprClass", E.type, 0, Op, <<E>>)

\* A comparison converts its operands as an arithmetic operator does and is
\* of type logical.
ActOnRelationalExpr(C, Op, LHS, RHS) ==
  [ActOnBinaryExpr(C, Op, LHS, RHS) EXCEPT !.type = getBuiltinQualType(C, "Logical")]

NextIs(toks, kinds) == toks # <<>> /\ Head(toks).kind \in kinds

Parsed(E, rest) == [E |-> E, rest |-> rest]

\* The value of a one-element set: the result of a call is bound once and
\* then used as a value.
Only(S) == CHOOSE x \in S : TRUE

\* The operator Op applied to the parsed operands l and r.
Applied(C, Op, l, r) ==
  IF l.E = NoExpr \/ r.E = NoExpr
  THEN Parsed(NoExpr, r.rest)
  ELSE IF IsRelational(Op)
  THEN Parsed(ActOnRelationalExpr(C, Op, l.E, r.E), r.rest)
  ELSE Parsed(ActOnBinaryExpr(C, Op, l.E, r.E), r.rest)

\* primary: a variable, or a sign in front of a primary.
RECURSIVE ParsePrimaryExpr(_, _, _)
ParsePrimaryExpr(D, FE, toks) ==
  IF NextIs(toks, {"minus"})
  THEN Only({Parsed(IF r.E = NoExpr THEN NoExpr ELSE UnaryExprCreate("Minus", r.E), r.rest) :
               r \in {ParsePrimaryExpr(D, FE, Tail(toks))}})
  ELSE IF NextIs(toks, {"identifier"}) /\ FE[Head(toks).id] # NullDecl
  THEN Parsed(VarExprCreate(D, FE[Head(toks).id]), Tail(toks))
  ELSE Parsed(NoExpr, toks)

\* A variant of mult-operand that groups ** to the left.
RECURSIVE ParsePowerRestLeft(_, _, _, _)
ParsePowerRestLeft(C, D, FE, l) ==
  IF l.E = NoExpr \/ ~NextIs(l.rest, {"starstar"})
  THEN l
  ELSE Only({ParsePowerRestLeft(C, D, FE, n) :
               n \in {Applied(C, "Power", l, r) :
                        r \in {ParsePrimaryExpr(D, FE, Tail(l.rest))}}})

ParseMultOperandLeft(C, D, FE, toks) ==
  Only({ParsePowerRestLeft(C, D, FE, l) : l \in {ParsePrimaryExpr(D, FE, toks)}})

\* mult-operand: primary [ ** mult-operand ].
RECURSIVE ParseMultOperand(_, _, _, _)
ParseMultOperand(C, D, FE, toks) ==
  Only({IF l.E = NoExpr \/ ~NextIs(l.rest, {"starstar"})
        THEN l
        ELSE Only({Applied(C, "Power", l, r) :
                     r \in {ParseMultOperand(C, D, FE, Tail(l.rest))}}) :
          l \in {ParsePrimaryExpr(D, FE, toks)}})

\* add-operand: mult-operand { (* | /) mult-operand }.
RECURSIVE ParseAddOperandRest(_, _, _, _)
ParseAddOperandRest(C, D, FE, l) ==
  IF l.E = NoExpr \/ ~NextIs(l.rest, {"star", "slash"})
  THEN l
  ELSE Only({ParseAddOperandRest(C, D, FE, n) :
               n \in {Applied(C, BinaryOperator(Head(l.rest).kind), l, r) :
                        r \in {ParseMultOperand(C, D, FE, Tail(l.rest))}}})

ParseAddOperand(C, D, FE, toks) ==
  Only({ParseAddOperandRest(C, D, FE, l) : l \in {ParseMultOperand(C, D, FE, toks)}})

\* level-2: add-operand { (+ | -) add-operand }.
RECURSIVE ParseLevel2Rest(_, _, _, _)
ParseLevel2Rest(C, D, FE, l) ==
  IF l.E = NoExpr \/ ~NextIs(l.rest, {"plus", "minus"})
  THEN l
  ELSE Only({ParseLevel2Rest(C, D, FE, n) :
               n \in {Applied(C, BinaryOperator(Head(l.rest).kind), l, r) :
                        r \in {ParseAddOperand(C, D, FE, Tail(l.rest))}}})

ParseLevel2Expr(C, D, FE, toks) ==
  Only({ParseLevel2Rest(C, D, FE, l) : l \in {ParseAddOperand(C, D, FE, toks)}})

\* level-4: level-2 [ rel-op level-2 ].
ParseLevel4Expr(C, D, FE, toks) ==
  Only({IF l.E = NoExpr \/ ~NextIs(l.rest, {"equalequal", "less", "greater"})
        THEN l
        ELSE Only({Applied(C, BinaryOperator(Head(l.rest).kind), l, r) :
                     r \in {ParseLevel2Expr(C, D, FE, Tail(l.rest))}}) :
          l \in {ParseLevel2Expr(C, D, FE, toks)}})

ParseExpression(C, D, FE, toks) == ParseLevel4Expr(C, D, FE, toks)

\* X = <toks>: the expression is parsed and handed to ActOnAssignmentStmt; a
\* token sequence that is no expression is reported and gives no statement.
ParseAssignmentStmt(toks) ==
  /\ Running /\ Begun
  /\ Len(Stmts) + Len(Diags) < MaxParsed
  /\ \E r \in {ParseExpression(Ctx, Decls, FETokenInfo, toks)} :
     /\ IF r.E # NoExpr /\ r.rest = <<>>
        THEN /\ Stmts' = [AssignmentStmtCreate(Stmts,
                            VarExprCreate(Decls, FETokenInfo[IdUpperX]), r.E,
                            NullExpr, CurContext)
                          EXCEPT ![Len(Stmts) + 1].toks = toks]
             /\ UNCHANGED <<Diags, Engine>>
        ELSE /\ CanReport(1)
             /\ Reported(<<Diag("error", NextLoc, "expected an expression", NullId)>>)
             /\ UNCHANGED Stmts
     /\ UNCHANGED <<Evaluated, Ctx, TypeLog, Decls, CurContext, FETokenInfo, abnormal, PushInfo>>

\* ------------------------------------------------------------------------
\* Constant folding
\* ------------------------------------------------------------------------
\* IntegerConstantExpr::Create: an integer constant of BitWidth bits.
IntegerConstantExprCreate(C, BitWidth, V) ==
  [ExprNode("IntegerConstantExprClass", getBuiltinQualType(C, "Integer"), 0, "None", <<>>)
     EXCEPT !.val = APInt(BitWidth, V)]

Pow2(n) == IF n = 8 THEN 256 ELSE 65536

NoWrap(v, w) == v

\* v in two's complement of w bits.
WrapInt(v, w) ==
  LET u == v % Pow2(w)
  IN IF 2 * u >= Pow2(w) THEN u - Pow2(w) ELSE u

Abs(v) == IF v < 0 THEN -v ELSE v

\* Division of the host: the quotient is truncated towards zero.
TruncDiv(a, b) ==
  IF (a < 0) = (b < 0) THEN Abs(a) \div Abs(b) ELSE -(Abs(a) \div Abs(b))

\* The width an expression is folded in: that of its first constant.
RECURSIVE BitWidthOf(_)
BitWidthOf(e) ==
  IF e.class = "IntegerConstantExprClass"
  THEN e.val.BitWidth
  ELSE IF e.sub = <<>> THEN 0 ELSE BitWidthOf(e.sub[1])

Folded(ok, Result) == [ok |-> ok, Result |-> Result]

NotFolded == Folded(FALSE, 0)

\* The operator Op of a BinaryExpr on folded operands, in w bits.
FoldBinary(Op, l, r, w) ==
  IF ~l.ok \/ ~r.ok
  THEN NotFolded
  ELSE CASE Op = "Plus" -> Folded(TRUE, WrapInt(l.Result + r.Result, w))
         [] Op = "Minus" -> Folded(TRUE, WrapInt(l.Result - r.Result, w))
         [] Op = "Multiply" -> Folded(TRUE, WrapInt(l.Result * r.Result, w))
         [] Op = "Divide" ->
              IF r.Result = 0
              THEN NotFolded
              ELSE Folded(TRUE, WrapInt(TruncDiv(l.Result, r.Result), w))
         [] OTHER -> NotFolded

\* Expr::EvaluateAsInt: the value of a constant expression, or no value.
RECURSIVE EvaluateAsInt(_)
EvaluateAsInt(e) ==
  CASE e.class = "IntegerConstantExprClass" -> Folded(TRUE, e.val.V)
    [] e.class = "UnaryExprClass" ->
         Only({IF x.ok /\ e.op = "Minus"
               THEN Folded(TRUE, WrapInt(-x.Result, BitWidthOf(e)))
               ELSE NotFolded : x \in {EvaluateAsInt(e.sub[1])}})
    [] e.class = "BinaryExprClass" ->
         Only({FoldBinary(e.op, l, r, BitWidthOf(e)) :
                 l \in {EvaluateAsInt(e.sub[1])}, r \in {EvaluateAsInt(e.sub[2])}})
    [] OTHER -> NotFolded

isEvaluatable(e) == EvaluateAsInt(e).ok

\* ------------------------------------------------------------------------
\* The diagnostics engine
\* ------------------------------------------------------------------------
\* ReportError, ReportWarning and ReportNote: the client is handed one
\* diagnostic of that level.
Report(level) ==
  /\ Running
  /\ CanReport(1)
  /\ Reported(<<Diag(level, NextLoc, "message", NullId)>>)
  /\ UNCHANGED <<Evaluated, Ctx, TypeLog, Decls, CurContext, FETokenInfo, Stmts, abnormal, PushInfo>>

\* A fatal diagnostic goes through EmitCurrentDiagnostic: the unit is marked
\* uncompilable and the client is handed the diagnostic.
EmitFatal ==
  /\ Running
  /\ CanReport(1)
  /\ Diags' = Append(Diags, Diag("fatal", NextLoc, "message", NullId))
  /\ Engine' = [Engine EXCEPT !.ErrorOccurred = TRUE,
                              !.UncompilableErrorOccurred = TRUE,
                              !.FatalErrorOccurred = TRUE,
                              !.UnrecoverableErrorOccurred = TRUE,
                              !.NumErrors = @ + 1,
                              !.Client = HandleDiagnostic(@, "fatal")]
  /\ UNCHANGED <<Evaluated, Ctx, TypeLog, Decls, CurContext, FETokenInfo, Stmts, abnormal, PushInfo>>

Reset ==
  /\ Running
  /\ Engine' = [EngineReset(Engine.Client) EXCEPT
                  !.DelayedDiagArg1 = Engine.DelayedDiagArg1,
                  !.DelayedDiagArg2 = Engine.DelayedDiagArg2]
  /\ UNCHANGED <<Evaluated, Ctx, TypeLog, Decls, CurContext, FETokenInfo, Diags, Stmts, abnormal,
                 PushInfo>>

\* GetCurDiagState: the state of the last point recorded.
GetCurDiagState(E) == E.DiagStatePoints[Len(E.DiagStatePoints)].State

\* The default mapping of the diagnostics of DiagKinds, which are warnings.
DefaultMapping == "MAP_WARNING"

\* DiagState::getOrAddMappingInfo: a diagnostic without an entry gets its
\* default mapping.
getOrAddMappingInfo(E, State, Diag_) ==
  [E EXCEPT !.DiagStates[State][Diag_] = IF @ = "MAP_NONE" THEN DefaultMapping ELSE @]

setMappingInfo(E, State, Diag_, Map) == [E EXCEPT !.DiagStates[State][Diag_] = Map]

\* DiagStates.push_back(S): a copy of state S at the end of the list.
PushDiagState(E, State) == [E EXCEPT !.DiagStates = Append(@, E.DiagStates[State])]

PushDiagStatePoint(E, State, L) ==
  [E EXCEPT !.DiagStatePoints = Append(@, DiagStatePoint(State, L))]

\* DiagStatePoints.insert(Pos, P): P goes in front of position Pos.
InsertPoint(Points, Pos, P) ==
  SubSeq(Points, 1, Pos - 1) \o <<P>> \o SubSeq(Points, Pos, Len(Points))

\* GetDiagStatePointForLoc returns in its first statement: the last point.
GetDiagStatePointForLoc(E, L) == Len(E.DiagStatePoints)

\* The mapping as requested, whatever the diagnostic is mapped to.
RequestedMapping(Info, Map) == Map

\* "Don't allow a mapping to a warning override an error/fatal mapping."
EffectiveMapping(Info, Map) ==
  IF Map = "MAP_WARNING" /\ Info \in {"MAP_ERROR", "MAP_FATAL"} THEN Info ELSE Map

\* DiagnosticsEngine::setDiagnosticMapping(Diag, Map, L) on engine E.
setDiagnosticMapping(E, Diag_, Map, L) ==
  LET Loc == L
      LastStateChangePos == E.DiagStatePoints[Len(E.DiagStatePoints)].Loc
      E1 == IF Map = "MAP_WARNING" THEN getOrAddMappingInfo(E, GetCurDiagState(E), Diag_)
            ELSE E
      MappingInfo == EffectiveMapping(E1.DiagStates[GetCurDiagState(E1)][Diag_], Map)
  IN IF ~isValid(Loc) \/ Loc = LastStateChangePos
     THEN setMappingInfo(E1, GetCurDiagState(E1), Diag_, MappingInfo)
     ELSE IF (isValid(Loc) /\ ~isValid(LastStateChangePos)) \/ LastStateChangePos < Loc
     THEN LET E2 == PushDiagState(E1, GetCurDiagState(E1))
              E3 == PushDiagStatePoint(E2, Len(E2.DiagStates), Loc)
          IN setMappingInfo(E3, GetCurDiagState(E3), Diag_, MappingInfo)
     ELSE LET Pos == GetDiagStatePointForLoc(E1, Loc)
              E2 == IF Pos + 1 <= Len(E1.DiagStatePoints)
                    THEN setMappingInfo(E1, GetCurDiagState(E1), Diag_, MappingInfo)
                    ELSE E1
          IN IF E2.DiagStatePoints[Pos].Loc = Loc
             THEN setMappingInfo(E2, GetCurDiagState(E2), Diag_, MappingInfo)
             ELSE LET E3 == PushDiagState(E2, E2.DiagStatePoints[Pos].State)
                      NewState == Len(E3.DiagStates)
                      E4 == setMappingInfo(E3, GetCurDiagState(E3), Diag_, MappingInfo)
                  IN [E4 EXCEPT !.DiagStatePoints =
                                   InsertPoint(@, Pos + 1, DiagStatePoint(NewState, Loc))]

SetDiagnosticMapping(Diag_, Map, L) ==
  /\ Running
  /\ \E E \in {setDiagnosticMapping(Engine, Diag_, Map, L)} :
       /\ Len(E.DiagStatePoints) <= 1 + MaxStatePoints
       /\ Engine' = E
  /\ UNCHANGED <<Evaluated, Ctx, TypeLog, Decls, CurContext, FETokenInfo, Diags, Stmts, abnormal,
                 PushInfo>>

\* ------------------------------------------------------------------------
\* DiagnosticsEngine: the diagnostic in flight and the delayed diagnostic
\* ------------------------------------------------------------------------
\* The diagnostics reported by id, with their levels and messages.
DiagIDs == {1, 2}
DiagLevels == <<"warning", "error">>
DiagTexts == <<"first", "second">>

\* The engine with its client's log while a diagnostic is processed; Args are
\* the arguments streamed into the diagnostic in flight.
Emitting(E, Log, Args) == [E |-> E, Log |-> Log, Args |-> Args]

\* Report(DiagID) << Arg1 << Arg2: the diagnostic is in flight.
ReportDiag(S, DiagID, Arg1, Arg2) ==
  [S EXCEPT !.E.CurDiagID = DiagID, !.Args = Arg1 \o Arg2]

\* The client is handed the diagnostic in flight and the engine counts it.
EmitDiag(S) ==
  LET DiagID == S.E.CurDiagID
      DiagLevel == DiagLevels[DiagID]
      E1 == [S.E EXCEPT !.Client = HandleDiagnostic(@, DiagLevel),
                        !.NumWarnings = IF DiagLevel = "warning" THEN @ + 1 ELSE @,
                        !.NumErrors = IF DiagLevel = "error" THEN @ + 1 ELSE @,
                        !.ErrorOccurred = @ \/ DiagLevel = "error",
                        !.UncompilableErrorOccurred = @ \/ DiagLevel = "error",
                        !.UnrecoverableErrorOccurred = @ \/ DiagLevel = "error"]
  IN [S EXCEPT !.E = E1,
               !.Log = Append(@, Diag(DiagLevel, Len(S.Log) + 1, DiagTexts[DiagID], S.Args))]

ProcessDiag(S) == EmitDiag(S)

\* Clear: no diagnostic is in flight.
Clear(S) == [S EXCEPT !.E.CurDiagID = NoCurDiag, !.Args = <<>>]

\* The delayed diagnostic is reported and stays pending.
ClearDelayedNever(S) == S

\* The three assignments that end ReportDelayed.
ClearDelayed(S) ==
  [S EXCEPT !.E.DelayedDiagID = 0, !.E.DelayedDiagArg1 = <<>>, !.E.DelayedDiagArg2 = <<>>]

RECURSIVE EmitCurrentDiagnostic(_, _)
RECURSIVE ReportDelayed(_)
\* The builder Report returns emits at the end of the first statement, while
\* DelayedDiagID still names the diagnostic.
ReportDelayed(S) ==
  Only({ClearDelayed(S1) :
          S1 \in {EmitCurrentDiagnostic(
                    ReportDiag(S, S.E.DelayedDiagID, S.E.DelayedDiagArg1,
                               S.E.DelayedDiagArg2), FALSE)}})

EmitCurrentDiagnostic(S, Force) ==
  Only({Only({IF ~Force /\ S2.E.DelayedDiagID # 0 /\ S2.E.DelayedDiagID # S1.E.CurDiagID
              THEN ReportDelayed(S2)
              ELSE S2 : S2 \in {Clear(S1)}}) :
          S1 \in {IF Force THEN EmitDiag(S) ELSE ProcessDiag(S)}})

\* SetDelayedDiagnostic: ignored while a delayed diagnostic is pending.
SetDelayedDiagnostic(DiagID, Arg1, Arg2) ==
  /\ Running
  /\ Engine' = IF Engine.DelayedDiagID # 0
               THEN Engine
               ELSE [Engine EXCEPT !.DelayedDiagID = DiagID,
                                   !.DelayedDiagArg1 = Arg1, !.DelayedDiagArg2 = Arg2]
  /\ UNCHANGED <<Evaluated, Ctx, TypeLog, Decls, CurContext, FETokenInfo, Diags, Stmts, abnormal,
                 PushInfo>>

\* Report(DiagID) << Arg, emitted when the builder goes out of scope.
Emit(DiagID, Arg, Force) ==
  /\ Running
  /\ CanReport(1)
  /\ \E S \in {EmitCurrentDiagnostic(
                 ReportDiag(Emitting(Engine, Diags, <<>>), DiagID, Arg, <<>>), Force)} :
       /\ Len(S.Log) <= MaxDiags
       /\ Engine' = S.E
       /\ Diags' = S.Log
  /\ UNCHANGED <<Evaluated, Ctx, TypeLog, Decls, CurContext, FETokenInfo, Stmts, abnormal, PushInfo>>

\* ------------------------------------------------------------------------
\* Diagnostic::FormatDiagnostic
\* ------------------------------------------------------------------------
\* A string is the sequence of its characters.
isDigit(c) == c \in {"0", "1", "2", "3", "4", "5", "6", "7", "8", "9"}

isPunctuation(c) == c \in {".", ",", ";", ":", "-", "!", "?"}

\* *DiagStr - '0' for a digit.
DigitValue(c) == CHOOSE v \in 0..9 : <<"0", "1", "2", "3", "4", "5", "6", "7", "8", "9">>[v + 1] = c

\* DiagStr[0] == '-' || (DiagStr[0] >= 'a' && DiagStr[0] <= 'z')
isModifierChar(c) ==
  c \in {"-", "a", "b", "c", "d", "e", "f", "g", "h", "i", "j", "k", "l", "m", "n", "o",
         "p", "q", "r", "s", "t", "u", "v", "w", "x", "y", "z"}

\* std::find(DiagStr, DiagEnd, '%'): the position of the first '%', or the end.
FindPercent(DiagStr) ==
  IF \E i \in DOMAIN DiagStr : DiagStr[i] = "%"
  THEN CHOOSE i \in DOMAIN DiagStr : DiagStr[i] = "%" /\ \A j \in 1..(i - 1) : DiagStr[j] # "%"
  ELSE Len(DiagStr) + 1

\* The length of the modifier DiagStr begins with.
RECURSIVE ModifierLenOf(_)
ModifierLenOf(DiagStr) ==
  IF DiagStr # <<>> /\ isModifierChar(Head(DiagStr))
  THEN 1 + ModifierLenOf(Tail(DiagStr))
  ELSE 0

DropFirst(str, n) == SubSeq(str, n + 1, Len(str))

\* What FormatDiagnostic leaves: the output, and how it ended.
Formatted(OutStr, ab) == [OutStr |-> OutStr, abnormal |-> ab]

\* FormatDiagnostic(DiagStr, DiagEnd, OutStr) for a format without {} clauses
\* and arguments Args, all of kind ak_std_string.  Build is "debug" when the
\* assertions are compiled in; in a "release" build a placeholder that is no
\* digit, or names no argument, makes getArgKind read beyond the arguments,
\* and Garbage is what that read has appended.
RECURSIVE FormatDiagnostic(_, _, _, _, _)
FormatDiagnostic(DiagStr, OutStr, Args, Build, Garbage) ==
  IF DiagStr = <<>>
  THEN Formatted(OutStr, "none")
  ELSE IF DiagStr[1] # "%"
  THEN FormatDiagnostic(DropFirst(DiagStr, FindPercent(DiagStr) - 1),
                        OutStr \o SubSeq(DiagStr, 1, FindPercent(DiagStr) - 1),
                        Args, Build, Garbage)
  ELSE IF Len(DiagStr) >= 2 /\ isPunctuation(DiagStr[2])
  THEN FormatDiagnostic(DropFirst(DiagStr, 2), Append(OutStr, DiagStr[2]), Args, Build, Garbage)
  ELSE LET Rest == Tail(DiagStr)
           ModifierLen == IF Rest # <<>> /\ ~isDigit(Rest[1]) THEN ModifierLenOf(Rest) ELSE 0
           AtDigit == DropFirst(Rest, ModifierLen)
       IN IF AtDigit = <<>> \/ ~isDigit(AtDigit[1])
          THEN IF Build = "debug"
               THEN Formatted(OutStr, "assert")
               ELSE FormatDiagnostic(DropFirst(AtDigit, 1), OutStr \o Garbage, Args, Build,
                                     Garbage)
          ELSE IF DigitValue(AtDigit[1]) >= Len(Args)
          THEN IF Build = "debug"
               THEN Formatted(OutStr, "assert")
               ELSE FormatDiagnostic(Tail(AtDigit), OutStr \o Garbage, Args, Build, Garbage)
          ELSE IF ModifierLen # 0 /\ Build = "debug"
          THEN Formatted(OutStr, "assert")
          ELSE FormatDiagnostic(Tail(AtDigit), OutStr \o Args[DigitValue(AtDigit[1]) + 1],
                                Args, Build, Garbage)

\* The arguments of the diagnostic that is formatted: one string.
FormatArgs == << <<"x">> >>

\* The diagnostic with description DiagStr is formatted and the client is
\* handed the message.
Format(DiagStr, Build, Garbage) ==
  /\ Running
  /\ CanReport(1)
  /\ \E r \in {FormatDiagnostic(DiagStr, <<>>, FormatArgs, Build, Garbage)} :
       IF r.abnormal # "none"
       THEN Abort(r.abnormal)
       ELSE /\ Reported(<<Diag("error", NextLoc, r.OutStr, NullId)>>)
            /\ UNCHANGED <<Evaluated, Ctx, TypeLog, Decls, CurContext, FETokenInfo, Stmts,
                           abnormal, PushInfo>>

\* ------------------------------------------------------------------------
\* ASTContext: the unique variable declarations
\* ------------------------------------------------------------------------
\* new (*this) VarDecl(Loc, DS, Info): a node of the folding set VariableDecls.
VarDeclNode(Loc, DS, Info) == [loc |-> Loc, ds |-> DS, name |-> Info]

\* VarDecl::Profile(ID, Info): the identifier is all the node id is made of.
VarDeclProfile(Info) == <<"Var", Info>>

\* VariableDecls.FindNodeOrInsertPos(ID, InsertPos): the node with that id, or null.
FindVarDeclOrInsertPos(Set, ID) ==
  IF \E i \in DOMAIN Set : VarDeclProfile(Set[i].name) = ID
  THEN CHOOSE i \in DOMAIN Set : VarDeclProfile(Set[i].name) = ID
  ELSE NullDecl

getOrCreateVarDeclAlways(C, Loc, DS, Info) ==
  [C |-> [C EXCEPT !.VariableDecls = Append(@, VarDeclNode(Loc, DS, Info))],
   R |-> Len(C.VariableDecls) + 1]

getOrCreateVarDecl(C, Loc, DS, Info) ==
  LET VD == FindVarDeclOrInsertPos(C.VariableDecls, VarDeclProfile(Info))
  IN IF VD # NullDecl
     THEN [C |-> C, R |-> VD]
     ELSE [C |-> [C EXCEPT !.VariableDecls = Append(@, VarDeclNode(Loc, DS, Info))],
           R |-> Len(C.VariableDecls) + 1]

getVarDecl(C, Info) ==
  [C |-> C, R |-> FindVarDeclOrInsertPos(C.VariableDecls, VarDeclProfile(Info))]

\* History: the n-th call on the context, its identifier and the pointer returned.
Called(fn, n, Info, R) == [req |-> fn, n |-> n, name |-> Info, R |-> R]

GetOrCreateVarDecl(Loc, DS, Info) ==
  /\ Running
  /\ Cardinality(TypeLog) < MaxCalls
  /\ \E res \in {getOrCreateVarDecl(Ctx, Loc, DS, Info)} :
       /\ Ctx' = res.C
       /\ TypeLog' = TypeLog \cup
            {Called("getOrCreateVarDecl", Cardinality(TypeLog) + 1, Info, res.R)}
  /\ UNCHANGED semaVars

GetVarDecl(Info) ==
  /\ Running
  /\ Cardinality(TypeLog) < MaxCalls
  /\ \E res \in {getVarDecl(Ctx, Info)} :
       /\ Ctx' = res.C
       /\ TypeLog' = TypeLog \cup
            {Called("getVarDecl", Cardinality(TypeLog) + 1, Info, res.R)}
  /\ UNCHANGED semaVars

Init ==
  /\ Ctx = ASTContextInit
  /\ TypeLog = {}
  /\ Decls = InitDecls
  /\ CurContext = NullDecl
  /\ FETokenInfo = InitFETokenInfo
  /\ Diags = <<>>
  /\ Engine = EngineInit
  /\ Evaluated = NoEvaluation
  /\ Stmts = <<>>
  /\ abnormal = "none"
  /\ PushInfo = <<>>

NextTypes ==
  \/ \E b \in TypePtrs(Ctx), q \in SUBSET QualBits, k \in ExprHandles :
       GetExtQualType(b, q, k)
  \/ \E l \in ExprHandles, k \in ExprHandles : GetCharacterBuiltinType(l, k)
  \/ \E t \in TypePtrs(Ctx), n \in DimCounts : GetPointerType(t, n)
  \/ \E t \in TypePtrs(Ctx), d \in DimLists : GetArrayType(t, d)

SpecTypes == Init /\ [][NextTypes]_vars

TypeNameSpecs ==
  {DeclSpec("TST_integer", {}, NullExpr, NullExpr),
   DeclSpec("TST_integer", {}, 1, NullExpr),
   DeclSpec("TST_integer", {"fast"}, NullExpr, NullExpr),
   DeclSpec("TST_character", {"ext"}, NullExpr, NullExpr),
   DeclSpec("TST_character", {"ext"}, NullExpr, 1),
   DeclSpec("TST_character", {"ext"}, 1, NullExpr)}

NextTypeNames ==
  \/ \E ds \in TypeNameSpecs : OnTypeName(ds)
  \/ \E ts \in {"Integer", "Character"}, k \in ExprHandles : GetBuiltinType(ts, k)

SpecTypeNames == Init /\ [][NextTypeNames]_vars

\* The locations and declaration specifiers getOrCreateVarDecl is handed.
VarDeclLocs == {1, 2}
VarDeclSpecs == {DeclSpec("TST_integer", {}, NullExpr, NullExpr),
                 DeclSpec("TST_real", {}, NullExpr, NullExpr)}

NextVarDecls ==
  \/ \E Loc \in VarDeclLocs, DS \in VarDeclSpecs, Info \in Names :
       GetOrCreateVarDecl(Loc, DS, Info)
  \/ \E Info \in Names : GetVarDecl(Info)

SpecVarDecls == Init /\ [][NextVarDecls]_vars

\* The state after ActOnTranslationUnit and REAL X, Y, Z, W.
RECURSIVE DeclareReals(_, _, _)
DeclareReals(D, FE, ids) ==
  IF ids = <<>>
  THEN [Decls |-> D, FE |-> FE]
  ELSE LET r == DeclareVar(D, FE, TUDecl, Len(D), Head(ids),
                           getBuiltinQualType(ASTContextInit, "Real"), "ActOnEntityDecl")
       IN DeclareReals(r.Decls, r.FE, Tail(ids))

ParserFETokenInfo ==
  [n \in AllNames \cup {ParserNames[i] : i \in 1..Len(ParserNames)} |-> NullDecl]

InitParser ==
  LET r == DeclareReals(InitDecls, ParserFETokenInfo, ParserNames)
  IN /\ Ctx = ASTContextInit
     /\ TypeLog = {}
     /\ Decls = r.Decls
     /\ CurContext = TUDecl
     /\ FETokenInfo = r.FE
     /\ Diags = <<>>
     /\ Engine = EngineInit
     /\ Evaluated = NoEvaluation
     /\ Stmts = <<>>
     /\ abnormal = "none"
     /\ PushInfo = (TUDecl :> [from |-> NullDecl, fe |-> ParserFETokenInfo])

ArithmeticToks == {"plus", "minus", "star", "slash", "starstar"}

RelationalToks == {"greater"}

MaxOperands == 4

\* The operator sequences between n operands: at most one relational operator.
OperatorSeqs(n) ==
  {f \in [1..(n - 1) -> ArithmeticToks \cup RelationalToks] :
     Cardinality({i \in 1..(n - 1) : f[i] \in RelationalToks}) <= 1}

\* X op Y op Z op W from operand i on; neg puts a sign before the last operand
\* (the inputs have one after * and ** and before a lone operand).
RECURSIVE TokensFrom(_, _, _, _)
TokensFrom(i, n, f, neg) ==
  LET operand == (IF neg /\ i = n THEN <<Punct("minus")>> ELSE <<>>)
                   \o <<Ident(ParserNames[i])>>
  IN IF i = n
     THEN operand
     ELSE operand \o <<Punct(f[i])>> \o TokensFrom(i + 1, n, f, neg)

Shapes == UNION {{<<m, g>> : g \in OperatorSeqs(m)} : m \in 1..MaxOperands}

SignAllowed(sh) == sh[1] = 1 \/ sh[2][sh[1] - 1] \in {"star", "starstar"}

TokenSeqs ==
  {TokensFrom(1, sh[1], sh[2], FALSE) : sh \in Shapes}
  \cup {TokensFrom(1, sh[1], sh[2], TRUE) : sh \in {x \in Shapes : SignAllowed(x)}}
  \cup {<<>>, <<Ident(IdUpperX), Punct("plus")>>}

NextParser == \E toks \in TokenSeqs : ParseAssignmentStmt(toks)

SpecParser == InitParser /\ [][NextParser]_vars

\* The expressions handed to EvaluateAsInt: constants of one and of two
\* bytes, a sign, one operator, two operators, and a variable among them.
ByteValues == {-128, -1, 0, 2, 127}

ShortValues == {-32768, 3, 32767}

FoldOperators == {"Plus", "Minus", "Multiply", "Divide"}

ByteLeaves(C) == {IntegerConstantExprCreate(C, 8, v) : v \in ByteValues}

ShortLeaves(C) == {IntegerConstantExprCreate(C, 16, v) : v \in ShortValues}

OneOperator(C, L) == {ActOnBinaryExpr(C, op, a, b) : op \in FoldOperators, a \in L, b \in L}

FoldInputs(C, D, FE) ==
  LET V == VarExprCreate(D, FE[IdUpperX])
      B == ByteLeaves(C)
      B1 == OneOperator(C, B)
  IN B \cup ShortLeaves(C) \cup B1 \cup OneOperator(C, ShortLeaves(C))
     \cup {UnaryExprCreate("Minus", a) : a \in B \cup B1}
     \cup {ActOnBinaryExpr(C, op, a, b) : op \in FoldOperators, a \in B1, b \in B}
     \cup {ActOnBinaryExpr(C, op, b, a) : op \in FoldOperators, a \in B1, b \in B}
     \cup {V} \cup {ActOnBinaryExpr(C, "Plus", a, V) : a \in B}

\* A caller folds one of the expressions; one call is followed, EvaluateAsInt
\* reads nothing but the expression.
Evaluate ==
  /\ Running
  /\ Evaluated = NoEvaluation
  /\ \E E \in FoldInputs(Ctx, Decls, FETokenInfo) :
       \E r \in {EvaluateAsInt(E)} : Evaluated' = Evaluation(E, r.ok, r.Result)
  /\ UNCHANGED <<Ctx, TypeLog, Decls, CurContext, FETokenInfo, Diags, Engine, Stmts, abnormal,
                 PushInfo>>

NextFold == Evaluate

SpecFold == InitParser /\ [][NextFold]_vars

ProgramNames == {NullId, IdLowerI, IdLowerX}

NextMain ==
  \/ ActOnTranslationUnit
  \/ \E n \in ProgramNames : ActOnMainProgram(n)
  \/ \E n \in ProgramNames : ActOnEndMainProgram(n)

SpecMain == Init /\ [][NextMain]_vars

NextDiags ==
  \/ \E level \in {"note", "warning", "error"} : Report(level)
  \/ EmitFatal
  \/ Reset
  \/ \E d \in DiagKinds, m \in {"MAP_WARNING", "MAP_ERROR"} :
       SetDiagnosticMapping(d, m, NullLoc)

SpecDiags == Init /\ [][NextDiags]_vars

\* The locations of the mapping changes: none (the command line) and two
\* places of the source.
MappingLocs == {NullLoc, 1, 2}

NextMappings ==
  \/ \E d \in DiagKinds, m \in {"MAP_WARNING", "MAP_ERROR", "MAP_FATAL"}, L \in MappingLocs :
       SetDiagnosticMapping(d, m, L)
  \/ Reset

SpecMappings == Init /\ [][NextMappings]_vars

\* The arguments of the diagnostics: none, or the name i.
DiagArgs == {NullId, IdLowerI}

NextDelayed ==
  \/ \E id \in DiagIDs, a1 \in DiagArgs, a2 \in DiagArgs : SetDelayedDiagnostic(id, a1, a2)
  \/ \E id \in DiagIDs, a \in DiagArgs, Force \in BOOLEAN : Emit(id, a, Force)
  \/ Reset

SpecDelayed == Init /\ [][NextDelayed]_vars

\* What a format string is put together from: text, a placeholder, and the
\* escapes of a punctuation character and of the percent sign.
FormatPieces == {<<"a">>, <<"b">>, <<"%", "0">>, <<"%", ".">>, <<"%", "%">>}

RECURSIVE FormatsOf(_)
FormatsOf(n) ==
  IF n = 0 THEN {<<>>}
  ELSE FormatsOf(n - 1) \cup {f \o p : f \in FormatsOf(n - 1), p \in FormatPieces}

Formats == FormatsOf(MaxPieces)

Builds == {"debug", "release"}

\* What a read beyond the arguments has been seen to append: nothing, or a
\* string that lay there.
GarbageArgs == {<<>>, <<"?">>}

NextFormat ==
  \E f \in Formats, b \in Builds, g \in GarbageArgs : Format(f, b, g)

SpecFormat == Init /\ [][NextFormat]_vars

\* The declaration specifier of the declaration actions: INTEGER.
DeclSpecs == {DeclSpec("TST_integer", {}, NullExpr, NullExpr)}

\* The names the parser finds undeclared: i and O.
ImplicitNames == {IdLowerI, IdUpperO}

Next ==
  \/ \E e \in ExprHandles : ActOnPARAMETERPair(IdLowerI, e)
  \/ ActOnTranslationUnit
  \/ ActOnEndProgramUnit
  \/ ActOnMainProgram(NullId)
  \/ ActOnEndMainProgram(NullId)
  \/ \E ds \in DeclSpecs, n \in Names : ActOnEntityDecl(ds, n)
  \/ \E n \in ImplicitNames : ActOnImplicitEntityDecl(n)
  \/ ActOnDerivedTypeDecl(IdLowerX)
  \/ \E ds \in DeclSpecs : ActOnDerivedTypeFieldDecl(ds, IdLowerI)
  \/ ActOnEndDerivedTypeDecl

Spec == Init /\ [][Next]_vars

\* The IMPLICIT statements of the implicit-typing runs: IMPLICIT REAL (I) and
\* IMPLICIT INTEGER (H-O).
ImplicitRules ==
  {[ds |-> DeclSpec("TST_real", {}, NullExpr, NullExpr),
    letters |-> << <<IdLowerI, NullId>> >>],
   [ds |-> DeclSpec("TST_integer", {}, NullExpr, NullExpr),
    letters |-> << <<IdLowerH, IdUpperO>> >>]}

NextImplicit ==
  \/ ActOnTranslationUnit
  \/ ActOnMainProgram(NullId)
  \/ ActOnEndMainProgram(NullId)
  \/ \E n \in Names : ActOnImplicitEntityDecl(n)
  \/ \E r \in ImplicitRules : ActOnIMPLICIT(r.ds, r.letters)
  \/ ActOnIMPLICITNone

SpecImplicit == Init /\ [][NextImplicit]_vars

\* The label lists of the referencing statements: GOTO and ASSIGN name one
\* label, an assigned GOTO lists the labels it allows.
LabelRefStmts ==
  {[kind |-> "Goto", targets |-> <<l>>] : l \in StmtLabels}
    \cup {[kind |-> "Assign", targets |-> <<l>>] : l \in StmtLabels}
    \cup {[kind |-> "AssignedGoto", targets |-> <<10, 20>>]}

NextLabels ==
  \/ ActOnTranslationUnit
  \/ ActOnMainProgram(NullId)
  \/ ActOnEndMainProgram(NullId)
  \/ \E l \in StmtLabels \cup {NullExpr} : ActOnContinueStmt(l)
  \/ \E r \in LabelRefStmts : ActOnLabelRefStmt(r.kind, r.targets)

SpecLabels == Init /\ [][NextLabels]_vars

\* The declarations of the expression runs: INTEGER i and REAL x.
ExprDecls ==
  {[ds |-> DeclSpec("TST_integer", {}, NullExpr, NullExpr), name |-> IdLowerI],
   [ds |-> DeclSpec("TST_real", {}, NullExpr, NullExpr), name |-> IdLowerX]}

\* The variables declared so far.
VarDecls(D) == {d \in 1..Len(D) : D[d].kind = "Var"}

\* The literals the parser hands over as operands, one of every ladder type.
Operands(C) ==
  {ConstantExprCreate(C, "IntegerConstantExprClass", "Integer"),
   ConstantExprCreate(C, "RealConstantExprClass", "Real"),
   ConstantExprCreate(C, "RealConstantExprClass", "DoublePrecision"),
   ConstantExprCreate(C, "ComplexConstantExprClass", "Complex")}

NextExprs ==
  \/ ActOnTranslationUnit
  \/ \E r \in ExprDecls : ActOnEntityDecl(r.ds, r.name)
  \/ \E v, w \in VarDecls(Decls) :
       ActOnAssignmentStmt(VarExprCreate(Decls, v), VarExprCreate(Decls, w))
  \/ \E v \in VarDecls(Decls), a, b \in Operands(Ctx) :
       ActOnAssignmentStmt(VarExprCreate(Decls, v), ActOnBinaryExpr(Ctx, "Plus", a, b))

SpecExprs == Init /\ [][NextExprs]_vars

\* ------------------------------------------------------------------------
\* Type identity
\* ------------------------------------------------------------------------
\* The handle a logged request was answered with.
HandleOf(r) == QualType(r.ptr, r.fast)

\* C1: over any sequence of type-construction requests, two requests get the
\* same handle exactly when their profiles are identical, and the context
\* holds one node per distinct profile requested: a repeated request
\* allocates nothing.
TypeIdentity ==
  /\ \A r1, r2 \in TypeLog : (r1.req = r2.req) <=> (HandleOf(r1) = HandleOf(r2))
  /\ Len(Ctx.Nodes) = NumBuiltin + Cardinality({r.prof : r \in TypeLog})

\* A profile was requested twice, with and without a fast qualifier, and a
\* second profile was requested beside it.
TypeIdentityWitness ==
  /\ \E r1, r2 \in TypeLog :
       r1.req # r2.req /\ r1.ptr = r2.ptr /\ r1.fast # r2.fast
  /\ \E r1, r2 \in TypeLog :
       r1.prof[1] = "ExtQuals" /\ r2.prof[1] = "Pointer" /\ r1.ptr # r2.ptr

\* ------------------------------------------------------------------------
\* Steps of the analyzer, told apart by what they change
\* ------------------------------------------------------------------------
\* A declaring action returns a new variable declaration.
DeclaresVar ==
  /\ abnormal' = "none"
  /\ Len(Decls') = Len(Decls) + 1
  /\ Decls'[Len(Decls')].kind = "Var"

\* A begin action enters a context that was not entered before.
PushStep ==
  /\ abnormal' = "none"
  /\ CurContext' # CurContext
  /\ CurContext' \notin DOMAIN PushInfo

\* An end-marker action leaves the current context.
PopStep ==
  /\ abnormal' = "none"
  /\ CurContext # NullDecl
  /\ CurContext' # CurContext
  /\ CurContext \in DOMAIN PushInfo
  /\ PushInfo' = PushInfo

\* The names a context's declaration list declares.
DeclaredIn(D, C) == {D[D[C].decls[i]].name : i \in 1..Len(D[C].decls)}

RECURSIVE IsWithin(_, _, _)
\* DC is A or lies inside A along the parent links.
IsWithin(D, DC, A) ==
  IF DC = A THEN TRUE
  ELSE IF DC = NullDecl THEN FALSE
  ELSE IsWithin(D, D[DC].ctx, A)

\* C2: when a declaring action returns declaration D for name n, a lookup of n
\* yields D, D is the last entry of the current context's declaration list and
\* belongs to that context; until the action returned the lookup of n gave the
\* binding active before it, and no other name's binding moves.
DeclarationVisibleOnReturn ==
  [][DeclaresVar =>
       LET D == Len(Decls')
           n == Decls'[D].name
       IN /\ FETokenInfo'[n] = D
          /\ CurContext' = CurContext
          /\ Decls'[D].ctx = CurContext
          /\ Decls'[CurContext].decls = Append(Decls[CurContext].decls, D)
          /\ FETokenInfo[n] < D
          /\ \A m \in AllNames \ {n} : FETokenInfo'[m] = FETokenInfo[m]]_vars

\* A declaration has replaced an earlier binding of the same name and is the
\* last entry of the current context's list.
DeclarationVisibleWitness ==
  /\ abnormal = "none"
  /\ CurContext # NullDecl
  /\ \E d \in 2..Len(Decls) : \E e \in 2..(d - 1) :
       /\ Decls[d].kind = "Var" /\ Decls[e].kind = "Var"
       /\ Decls[d].name = Decls[e].name
       /\ FETokenInfo[Decls[d].name] = d
       /\ Len(Decls[CurContext].decls) > 0
       /\ Decls[CurContext].decls[Len(Decls[CurContext].decls)] = d

\* C3: after the end-marker action that pops context C, every name declared in
\* C is bound again to what it was bound to just before C was pushed.
PopRestoresBindings ==
  [][PopStep =>
       \A n \in DeclaredIn(Decls, CurContext) :
         FETokenInfo'[n] = PushInfo[CurContext].fe[n]]_vars

\* The step is on-entity-decl for name n: it declares n or reports n as
\* declared already.
OnEntityDeclStep(n) ==
  /\ abnormal' = "none"
  /\ \/ /\ DeclaresVar
        /\ Decls'[Len(Decls')].by = "ActOnEntityDecl"
        /\ Decls'[Len(Decls')].name = n
     \/ /\ Decls' = Decls
        /\ Len(Diags') > Len(Diags)
        /\ Diags'[Len(Diags) + 1].msg = "already declared"
        /\ Diags'[Len(Diags) + 1].name = n

\* The variables of name n that context C lists.
VarsNamed(D, C, n) ==
  {D[C].decls[i] : i \in {j \in 1..Len(D[C].decls) :
                            D[D[C].decls[j]].kind = "Var" /\ D[D[C].decls[j]].name = n}}

\* C4: on-entity-decl called for a name already declared in the current
\* context reports exactly one error at the new location and one note at the
\* previous declaration, and leaves the declarations (no second declaration is
\* created) and the bindings as they were.
RedeclarationRejected ==
  [][\A n \in AllNames :
       (OnEntityDeclStep(n) /\ CurContext # NullDecl /\ VarsNamed(Decls, CurContext, n) # {})
         => /\ Decls' = Decls
            /\ FETokenInfo' = FETokenInfo
            /\ Len(Diags') = Len(Diags) + 2
            /\ Diags'[Len(Diags) + 1].level = "error"
            /\ Diags'[Len(Diags) + 1].loc = NextLoc
            /\ Diags'[Len(Diags) + 2].level = "note"
            /\ \E prev \in VarsNamed(Decls, CurContext, n) :
                 Diags'[Len(Diags) + 2].loc = Decls[prev].loc]_vars

\* C5: once the translation unit is opened the current context is never null
\* and is the translation unit or lies inside it.
CurContextWithinTU ==
  (Begun /\ abnormal = "none") =>
     (CurContext # NullDecl /\ IsWithin(Decls, CurContext, TUDecl))

\* A program unit and a derived type inside it were opened and closed again,
\* and the current context is the translation unit.
CurContextWithinTUWitness ==
  /\ abnormal = "none"
  /\ CurContext = TUDecl
  /\ \E r \in DOMAIN PushInfo :
       Decls[r].kind = "Record" /\ Decls[Decls[r].ctx].kind = "MainProgram"

\* C6: contexts nest: the context a begin action enters has the then-current
\* context as its parent, and an end-marker action returns to the context that
\* was current when the one it leaves was entered.
ContextsWellNested ==
  [][/\ PushStep => Decls'[CurContext'].ctx = CurContext
     /\ PopStep => /\ CurContext' = PushInfo[CurContext].from
                   /\ CurContext' = Decls[CurContext].ctx]_vars

\* A derived type was entered from inside a main program, and both were left.
ContextsWellNestedWitness ==
  /\ abnormal = "none"
  /\ \E r \in DOMAIN PushInfo :
       /\ Decls[r].kind = "Record"
       /\ PushInfo[r].from # TUDecl
       /\ Decls[PushInfo[r].from].kind = "MainProgram"
       /\ ~IsWithin(Decls, CurContext, PushInfo[r].from)

\* C7: no action returns abnormally: no run ends in a failed assertion, a
\* failed cast or a dereference of a null pointer.
NoAbnormalReturn == abnormal = "none"

\* ------------------------------------------------------------------------
\* Statement labels and implicit typing
\* ------------------------------------------------------------------------
\* The program unit was entered and has been left.
Closed(u) ==
  /\ u \in DOMAIN PushInfo
  /\ Decls[u].kind = "MainProgram"
  /\ ~IsWithin(Decls, CurContext, u)

\* The statements of unit u that carry label l.
Carriers(u, l) ==
  {t \in 1..Len(Stmts) : Stmts[t].unit = u /\ Stmts[t].label = l}

\* C8: when end-main-program has popped a program unit, every label reference
\* of a GOTO, ASSIGN or assigned GOTO of the unit whose label some statement of
\* the unit carries holds that statement, wherever the labelled statement
\* stands; and a referenced label no statement of the unit carries has been
\* reported with a fatal diagnostic.
LabelsResolvedAtEnd ==
  abnormal = "none" =>
    \A s \in 1..Len(Stmts) : \A i \in 1..Len(Stmts[s].dest) :
      LET r == Stmts[s].dest[i]
          u == Stmts[s].unit
      IN Closed(u) =>
           IF Carriers(u, r.label) # {}
           THEN r.Statement \in Carriers(u, r.label)
           ELSE \E d \in 1..Len(Diags) : Diags[d].level = "fatal"

\* The first letters I..N in either case.
IntegerLetters == (73..78) \cup (105..110)

\* The type the default letter map gives a name.
DefaultImplicitType(n) ==
  IF n[1] \in IntegerLetters
  THEN getBuiltinQualType(Ctx, "Integer")
  ELSE getBuiltinQualType(Ctx, "Real")

\* The step is on-implicit-entity-decl declaring a variable.
DeclaresImplicitVar ==
  DeclaresVar /\ Decls'[Len(Decls')].by = "ActOnImplicitEntityDecl"

\* The IMPLICIT statements built so far in unit u.
ImplicitStmtsOf(u) ==
  {k \in 1..Len(Stmts) : Stmts[k].kind = "Implicit" /\ Stmts[k].unit = u}

\* Letter c, in upper case, lies in the range a letter spec gives.
Covers(spec, c) ==
  LET lo == toupper(spec[1][1])
      hi == IF spec[2] = NullId THEN lo ELSE toupper(spec[2][1])
  IN lo <= c /\ c <= hi

\* The typed IMPLICIT statements of unit u whose ranges hold n's first letter.
RulesFor(u, n) ==
  {k \in ImplicitStmtsOf(u) :
     /\ ~Stmts[k].none
     /\ \E i \in 1..Len(Stmts[k].letters) : Covers(Stmts[k].letters[i], toupper(n[1]))}

\* C9: with no IMPLICIT statement in effect, on-implicit-entity-decl(name)
\* creates a variable of default integer type when the first letter of name is
\* one of I..N in either case and of default real type for every other first
\* letter, and emits no diagnostic; a redeclaration is reported only for a name
\* the current context declares already.
ImplicitTypingDefaults ==
  [][/\ (DeclaresImplicitVar /\ ImplicitStmtsOf(CurContext) = {})
          => /\ Decls'[Len(Decls')].type = DefaultImplicitType(Decls'[Len(Decls')].name)
             /\ Diags' = Diags
     /\ (abnormal' = "none" /\ Len(Diags') > Len(Diags)
           /\ Diags'[Len(Diags) + 1].msg = "already declared")
          => Diags'[Len(Diags) + 1].name \in DeclaredIn(Decls, CurContext)]_vars

\* In a program unit, with no IMPLICIT statement and no diagnostic,
\* on-implicit-entity-decl has declared i as default integer and O as default
\* real.
ImplicitTypingDefaultsWitness ==
  /\ abnormal = "none"
  /\ \E d, e \in 2..Len(Decls) :
       /\ Decls[d].by = "ActOnImplicitEntityDecl" /\ Decls[e].by = "ActOnImplicitEntityDecl"
       /\ Decls[d].ctx = Decls[e].ctx
       /\ Decls[Decls[d].ctx].kind = "MainProgram"
       /\ Stmts = <<>> /\ Diags = <<>>
       /\ Decls[d].name = IdLowerI /\ Decls[d].type = getBuiltinQualType(Ctx, "Integer")
       /\ Decls[e].name = IdUpperO /\ Decls[e].type = getBuiltinQualType(Ctx, "Real")

\* C10: after IMPLICIT T (R) in the current scope unit every later
\* on-implicit-entity-decl in that unit for a name whose first letter lies in R
\* creates a variable of type T; and in a scope unit that has no IMPLICIT
\* statement of its own the letters map to the defaults again.
ImplicitStatementOverrides ==
  [][DeclaresImplicitVar =>
       LET n == Decls'[Len(Decls')].name
           T == Decls'[Len(Decls')].type
       IN /\ RulesFor(CurContext, n) # {}
               => \E k \in RulesFor(CurContext, n) : T = Stmts[k].ty
          /\ ImplicitStmtsOf(CurContext) = {} => T = DefaultImplicitType(n)]_vars

\* IMPLICIT NONE was built in program unit u.
ImplicitNoneIn(u) ==
  /\ u # NullDecl
  /\ Decls[u].kind = "MainProgram"
  /\ \E k \in ImplicitStmtsOf(u) : Stmts[k].none

\* C11: after IMPLICIT NONE in the current scope unit, on-implicit-entity-decl
\* for an undeclared name reports an error and creates a variable of default
\* real type whatever the first letter of the name.
ImplicitNoneReported ==
  [][(DeclaresImplicitVar /\ ImplicitNoneIn(CurContext)) =>
       /\ Decls'[Len(Decls')].type = getBuiltinQualType(Ctx, "Real")
       /\ Len(Diags') = Len(Diags) + 1
       /\ Diags'[Len(Diags')].level = "error"]_vars

\* ------------------------------------------------------------------------
\* PARAMETER
\* ------------------------------------------------------------------------
\* The step is on-parameter-pair declaring a named constant from an
\* expression that is there.
DeclaresParameter ==
  /\ DeclaresVar
  /\ Decls'[Len(Decls')].by = "ActOnPARAMETERPair"
  /\ Decls'[Len(Decls')].type \notin GarbageTypes

\* C12: when on-parameter-pair(name, e) succeeds the current context gains
\* exactly one variable declaration for name, of the type of e and with the
\* parameter attribute set, name is bound to it, and nothing is reported.
ParameterDeclared ==
  [][DeclaresParameter =>
       LET D == Len(Decls')
       IN /\ Decls'[CurContext].decls = Append(Decls[CurContext].decls, D)
          /\ \E e \in ExprHandles \ {NullExpr} : Decls'[D].type = ExprType(Ctx, e)
          /\ isParameter(Decls', D)
          /\ FETokenInfo'[Decls'[D].name] = D
          /\ Diags' = Diags]_vars

\* The step is on-parameter-pair reporting a clash for the name it was given.
ReportsParameterClash ==
  /\ abnormal' = "none"
  /\ Len(Diags') > Len(Diags)
  /\ Diags'[Len(Diags) + 1].msg = "already defined"

\* C13: on-parameter-pair(name, e) reports a clash exactly when the current
\* context declares name already: then one error at the new site, one note at
\* the prior definition and no declaration; a name declared only in another
\* context is declared without diagnostic.
ParameterClashOnlyInContext ==
  [][/\ ReportsParameterClash =>
          LET n == Diags'[Len(Diags) + 1].name
          IN /\ CurContext # NullDecl
             /\ n \in DeclaredIn(Decls, CurContext)
             /\ Len(Diags') = Len(Diags) + 2
             /\ Diags'[Len(Diags) + 1].level = "error"
             /\ Diags'[Len(Diags) + 1].loc = NextLoc
             /\ Diags'[Len(Diags) + 2].level = "note"
             /\ Diags'[Len(Diags) + 2].loc = Decls[FETokenInfo[n]].loc
             /\ Decls' = Decls
     /\ (DeclaresVar /\ Decls'[Len(Decls')].by = "ActOnPARAMETERPair") =>
          /\ Decls'[Len(Decls')].name \notin DeclaredIn(Decls, CurContext)
          /\ Diags' = Diags]_vars

\* ------------------------------------------------------------------------
\* Implicit conversions
\* ------------------------------------------------------------------------
IsCast(e) == e.class = "ImplicitCastExprClass"

\* The expression a conversion wraps, or the expression itself.
Unwrapped(e) == IF IsCast(e) THEN e.sub[1] ELSE e

\* C14: the assignment statement on-assignment returns for sides of different
\* arithmetic types has as right side an ImplicitCast to the left side's type
\* around the original right side; for sides of one type it has no cast.
AssignmentConverts ==
  \A s \in 1..Len(Stmts) :
    Stmts[s].kind = "Assignment" =>
      LET L == Stmts[s].lhs
          R == Stmts[s].rhs
      IN IF IsCast(R)
         THEN R.type = L.type /\ Unwrapped(R).type # L.type
         ELSE R.type = L.type

\* C15: in every binary arithmetic expression over operand types T1 # T2 of
\* the ladder Integer, Real, Double, Complex exactly one operand is wrapped in
\* an ImplicitCast, it is the narrower one, it is converted to the wider type,
\* and the wider type is the type of the expression.
BinaryOperandsPromoted ==
  \A s \in 1..Len(Stmts) :
    Stmts[s].rhs.class = "BinaryExprClass" =>
      LET e == Stmts[s].rhs
          l == e.sub[1]
          r == e.sub[2]
          T1 == Unwrapped(l).type
          T2 == Unwrapped(r).type
          wide == IF Rank(Ctx, T1) < Rank(Ctx, T2) THEN T2 ELSE T1
      IN T1 # T2 =>
           /\ IsCast(l) # IsCast(r)
           /\ IsCast(l) <=> wide = T2
           /\ l.type = wide /\ r.type = wide
           /\ e.type = wide

\* Complex + Integer and Integer + Real have been built: the conversion wraps
\* the right operand of the first and the left operand of the second.
BinaryOperandsPromotedWitness ==
  /\ abnormal = "none"
  /\ \E s, t \in 1..Len(Stmts) :
       /\ Stmts[s].rhs.class = "BinaryExprClass" /\ Stmts[t].rhs.class = "BinaryExprClass"
       /\ Stmts[s].rhs.sub[1].type = getBuiltinQualType(Ctx, "Complex")
       /\ IsCast(Stmts[s].rhs.sub[2])
       /\ Unwrapped(Stmts[s].rhs.sub[2]).type = getBuiltinQualType(Ctx, "Integer")
       /\ IsCast(Stmts[t].rhs.sub[1])
       /\ Unwrapped(Stmts[t].rhs.sub[1]).type = getBuiltinQualType(Ctx, "Integer")
       /\ Stmts[t].rhs.type = getBuiltinQualType(Ctx, "Real")

\* ------------------------------------------------------------------------
\* Derived types
\* ------------------------------------------------------------------------
\* C16: between ActOnDerivedTypeDecl and ActOnEndDerivedTypeDecl only field
\* declarations are accepted: every declaration a record lists is a field;
\* on-entity-decl, on-implicit-entity-decl and on-parameter-pair add no
\* variable to a record.
RecordListsOnlyFields ==
  \A R \in 1..Len(Decls) :
    Decls[R].kind = "Record" =>
      \A i \in 1..Len(Decls[R].decls) : Decls[Decls[R].decls[i]].kind = "Field"

\* ------------------------------------------------------------------------
\* Base types
\* ------------------------------------------------------------------------
\* Node n is an instance of base type K: a BuiltinType of kind K, or for
\* Character a character type node with neither length nor kind selector.
IsBaseTypeInstance(n, K) ==
  \/ Ctx.Nodes[n].tc = "Builtin" /\ Ctx.Nodes[n].prof[2] = K
  \/ /\ K = "Character"
     /\ Ctx.Nodes[n].tc = "CharacterBuiltin"
     /\ Ctx.Nodes[n].prof = CharacterProfile(NullExpr, NullExpr)

BaseTypeKinds == {TypeSpecs[i] : i \in 1..Len(TypeSpecs)}

\* C17: every base type exists in exactly one instance: the six instances made
\* at initialization are pairwise distinct, getBuiltinQualType returns in every
\* state the handle it returned at initialization, and no type-construction
\* request creates another instance of a base type.
BaseTypesUnique ==
  /\ \A K \in BaseTypeKinds :
       /\ Cardinality({n \in 1..Len(Ctx.Nodes) : IsBaseTypeInstance(n, K)}) = 1
       /\ getBuiltinQualType(Ctx, K) = getBuiltinQualType(ASTContextInit, K)
  /\ \A K1, K2 \in BaseTypeKinds :
       K1 # K2 => getBuiltinQualType(Ctx, K1) # getBuiltinQualType(Ctx, K2)

\* ------------------------------------------------------------------------
\* Qualifier bundles
\* ------------------------------------------------------------------------
IsTypeNameRequest(r) == r.req[1] = "ActOnTypeName"

IsBuiltinTypeRequest(r) == r.req[1] = "getBuiltinType"

\* C18: the length selector is part of a qualifier bundle's identity: two
\* ActOnTypeName requests with attributes return the same handle exactly when
\* base type, kind selector, length selector and attribute set are all equal.
LengthSelectorInIdentity ==
  \A r1, r2 \in TypeLog :
    /\ IsTypeNameRequest(r1) /\ hasAttributes(r1.req[2])
    /\ IsTypeNameRequest(r2) /\ hasAttributes(r2.req[2])
    => ((HandleOf(r1) = HandleOf(r2)) <=> (r1.req[2] = r2.req[2]))

\* A logged request that carries no attribute (ActOnTypeName) or no kind
\* selector (getBuiltinType), and the base type it names.
ReducesToBase(r) ==
  \/ IsTypeNameRequest(r) /\ ~hasAttributes(r.req[2])
  \/ IsBuiltinTypeRequest(r) /\ r.req[3] = NullExpr

BaseOf(r) ==
  IF IsTypeNameRequest(r)
  THEN TypeSpecResult(ASTContextInit, r.req[2].tst)
  ELSE getBuiltinQualType(ASTContextInit, r.req[2])

\* C19: ActOnTypeName for a declaration specifier without attributes and
\* getBuiltinType with an absent kind selector return the unique base-type
\* handle itself, and the step that answers them creates no node.
RequestReducesToBase ==
  [][\A r \in TypeLog' \ TypeLog :
       ReducesToBase(r) => HandleOf(r) = BaseOf(r) /\ Ctx' = Ctx]_vars

RequestReducesToBaseWitness ==
  /\ \E r \in TypeLog : IsTypeNameRequest(r) /\ ReducesToBase(r) /\ r.req[2].kind # NullExpr
  /\ \E r \in TypeLog : IsBuiltinTypeRequest(r) /\ ReducesToBase(r)
  /\ \E r \in TypeLog : IsBuiltinTypeRequest(r) /\ ~ReducesToBase(r)
  /\ Ctx.ExtQualNodes # {}

\* ------------------------------------------------------------------------
\* Diagnostics
\* ------------------------------------------------------------------------
ErrorReported == \E i \in 1..Len(Diags) : Diags[i].level \in {"error", "fatal"}

\* C20: the error flag is persistent: hadErrors is true exactly when a
\* diagnostic of level error or fatal has been reported, and no step (further
\* notes or warnings, mapping changes, Reset) turns it from true to false.
ErrorFlagPersistent ==
  /\ [](hadErrors(Engine) <=> ErrorReported)
  /\ [][hadErrors(Engine) => hadErrors(Engine)']_vars

ErrorFlagPersistentWitness ==
  /\ Len(Diags) = 2
  /\ Diags[1].level = "fatal" /\ Diags[2].level = "warning"
  /\ ~Engine.FatalErrorOccurred
  /\ \E d \in DiagKinds : Engine.DiagStates[1][d] = "MAP_ERROR"
  /\ hadErrors(Engine)

\* ------------------------------------------------------------------------
\* Expression grouping
\* ------------------------------------------------------------------------
TokenKindOf(Op) ==
  CHOOSE k \in ArithmeticToks \cup RelationalToks : BinaryOperator(k) = Op

\* The tokens of an expression tree, read from left to right.
RECURSIVE Flatten(_)
Flatten(e) ==
  CASE e.class = "VarExprClass" -> <<Ident(Decls[e.var].name)>>
    [] e.class = "UnaryExprClass" -> <<Punct("minus")>> \o Flatten(e.sub[1])
    [] e.class = "ImplicitCastExprClass" -> Flatten(e.sub[1])
    [] e.class = "BinaryExprClass" ->
         Flatten(e.sub[1]) \o <<Punct(TokenKindOf(e.op))>> \o Flatten(e.sub[2])
    [] OTHER -> <<>>

\* The tree with every operator application in parentheses.
RECURSIVE Grouped(_)
Grouped(e) ==
  CASE e.class = "VarExprClass" -> <<Ident(Decls[e.var].name)>>
    [] e.class = "UnaryExprClass" ->
         <<Punct("l_paren"), Punct("minus")>> \o Grouped(e.sub[1]) \o <<Punct("r_paren")>>
    [] e.class = "ImplicitCastExprClass" -> Grouped(e.sub[1])
    [] e.class = "BinaryExprClass" ->
         <<Punct("l_paren")>> \o Grouped(e.sub[1]) \o <<Punct(TokenKindOf(e.op))>>
           \o Grouped(e.sub[2]) \o <<Punct("r_paren")>>
    [] OTHER -> <<>>

Precedence(Op) ==
  CASE Op = "Power" -> 4
    [] Op \in {"Multiply", "Divide"} -> 3
    [] Op \in {"Plus", "Minus"} -> 2
    [] OTHER -> 1

IsBinary(e) == e.class = "BinaryExprClass"

\* Every operator of the tree has operands of higher precedence, or of its
\* own on the left (+ - * /) or on the right (**); a sign has a primary.
RECURSIVE GroupedByPrecedence(_)
GroupedByPrecedence(e) ==
  CASE e.class = "UnaryExprClass" ->
         /\ e.sub[1].class \in {"VarExprClass", "UnaryExprClass"}
         /\ GroupedByPrecedence(e.sub[1])
    [] e.class = "BinaryExprClass" ->
         LET l == e.sub[1]
             r == e.sub[2]
         IN /\ IsBinary(l) =>
                 \/ Precedence(l.op) > Precedence(e.op)
                 \/ /\ Precedence(l.op) = Precedence(e.op)
                    /\ e.op \in {"Plus", "Minus", "Multiply", "Divide"}
            /\ IsBinary(r) =>
                 \/ Precedence(r.op) > Precedence(e.op)
                 \/ Precedence(r.op) = Precedence(e.op) /\ e.op = "Power"
            /\ GroupedByPrecedence(l)
            /\ GroupedByPrecedence(r)
    [] OTHER -> TRUE

TX == Ident(IdUpperX)
TY == Ident(IdUpperY)
TZ == Ident(IdUpperZ)
TW == Ident(IdUpperW)
LP == Punct("l_paren")
RP == Punct("r_paren")
PlusTok == Punct("plus")
MinusTok == Punct("minus")
StarTok == Punct("star")
SlashTok == Punct("slash")
PowerTok == Punct("starstar")
GreaterTok == Punct("greater")

\* The operator sequences of the test with the grouping it expects.
GroupingExamples ==
  {[src |-> <<TX, PlusTok, TY, MinusTok, TZ, PlusTok, TW>>,
    out |-> <<LP, LP, LP, TX, PlusTok, TY, RP, MinusTok, TZ, RP, PlusTok, TW, RP>>],
   [src |-> <<TX, PlusTok, TY, StarTok, TZ>>,
    out |-> <<LP, TX, PlusTok, LP, TY, StarTok, TZ, RP, RP>>],
   [src |-> <<TX, PlusTok, TY, PowerTok, TZ, SlashTok, TW>>,
    out |-> <<LP, TX, PlusTok, LP, LP, TY, PowerTok, TZ, RP, SlashTok, TW, RP, RP>>],
   [src |-> <<TX, PlusTok, TY, StarTok, MinusTok, TZ>>,
    out |-> <<LP, TX, PlusTok, LP, TY, StarTok, LP, MinusTok, TZ, RP, RP, RP>>],
   [src |-> <<TX, MinusTok, TY, GreaterTok, TZ, PowerTok, TW>>,
    out |-> <<LP, LP, TX, MinusTok, TY, RP, GreaterTok, LP, TZ, PowerTok, TW, RP, RP>>]}

\* C21: the tree built for an unparenthesised operator sequence has the
\* tokens of the sequence in their order and groups them by precedence (**
\* above * / above + - above the relational operators; + - * / to the left,
\* ** to the right; a sign binds before the enclosing multiplication); the
\* five sequences of the test are grouped as the test expects.
OperatorsGroupedByPrecedence ==
  \A s \in 1..Len(Stmts) :
    Stmts[s].toks # <<>> =>
      /\ Flatten(Stmts[s].rhs) = Stmts[s].toks
      /\ GroupedByPrecedence(Stmts[s].rhs)
      /\ \A ex \in GroupingExamples :
           Stmts[s].toks = ex.src => Grouped(Stmts[s].rhs) = ex.out

OperatorsGroupedByPrecedenceWitness ==
  \E s \in 1..Len(Stmts) :
    /\ Stmts[s].toks = <<TX, PlusTok, TY, PowerTok, TZ, SlashTok, TW>>
    /\ Grouped(Stmts[s].rhs) =
         <<LP, TX, PlusTok, LP, LP, TY, PowerTok, TZ, RP, SlashTok, TW, RP, RP>>

\* ------------------------------------------------------------------------
\* Constant folding
\* ------------------------------------------------------------------------
\* The integer of w bits in two's complement that is congruent to v.
InKind(v, w) ==
  CHOOSE r \in (-(Pow2(w) \div 2))..((Pow2(w) \div 2) - 1) : (r - v) % Pow2(w) = 0

\* The value of the expression in the arithmetic of the integers; a division
\* divides the values its operands have in the kind.
RECURSIVE HostValue(_)
HostValue(e) ==
  CASE e.class = "IntegerConstantExprClass" -> e.val.V
    [] e.class = "UnaryExprClass" -> -HostValue(e.sub[1])
    [] e.op = "Plus" -> HostValue(e.sub[1]) + HostValue(e.sub[2])
    [] e.op = "Minus" -> HostValue(e.sub[1]) - HostValue(e.sub[2])
    [] e.op = "Multiply" -> HostValue(e.sub[1]) * HostValue(e.sub[2])
    [] e.op = "Divide" ->
         TruncDiv(InKind(HostValue(e.sub[1]), BitWidthOf(e)),
                  InKind(HostValue(e.sub[2]), BitWidthOf(e)))

\* All leaves are integer constants and no division has the divisor zero.
RECURSIVE Evaluable(_)
Evaluable(e) ==
  CASE e.class = "IntegerConstantExprClass" -> TRUE
    [] e.class = "UnaryExprClass" -> Evaluable(e.sub[1])
    [] e.class = "BinaryExprClass" ->
         /\ Evaluable(e.sub[1])
         /\ Evaluable(e.sub[2])
         /\ e.op = "Divide" => InKind(HostValue(e.sub[2]), BitWidthOf(e)) # 0
    [] OTHER -> FALSE

RedeclarationOnlyInContext ==
  [][\A n \in AllNames :
       OnEntityDeclStep(n) =>
         LET Prev == FETokenInfo[n]
             VD == Len(Decls')
         IN IF Prev # NullDecl /\ Decls[Prev].ctx = CurContext
            THEN Decls' = Decls /\ Len(Diags') = Len(Diags) + 2
            ELSE /\ Diags' = Diags
                 /\ DeclaresVar
                 /\ Decls'[VD].ctx = CurContext /\ Decls'[VD].name = n
                 /\ Decls'[CurContext].decls = Append(Decls[CurContext].decls, VD)
                 /\ FETokenInfo' = [FETokenInfo EXCEPT ![n] = VD]]_vars

\* A name was declared in one context and then, without diagnostic, in
\* another, to which it is now bound.
RedeclarationOnlyInContextWitness ==
  /\ abnormal = "none" /\ Diags = <<>>
  /\ \E n \in Names, d1, d2 \in 1..Len(Decls) :
       /\ d1 < d2
       /\ Decls[d1].name = n /\ Decls[d2].name = n
       /\ Decls[d1].by = "ActOnEntityDecl" /\ Decls[d2].by = "ActOnEntityDecl"
       /\ Decls[d1].ctx # Decls[d2].ctx
       /\ FETokenInfo[n] = d2

\* C24: ActOnEndMainProgram in an open main program pops exactly one context
\* and reports an error exactly when the program has a name, an end name is
\* supplied and the two differ.
EndMainProgramPopsOnce ==
  [][\A ID \in ProgramNames :
       (/\ CurContext # NullDecl
        /\ Decls[CurContext].kind = "MainProgram"
        /\ ActOnEndMainProgram(ID))
         => /\ abnormal' = "none"
            /\ CurContext' = Decls[CurContext].ctx
            /\ Decls' = Decls
            /\ IF /\ Decls[CurContext].name # NullId
                  /\ ID # NullId
                  /\ ID # Decls[CurContext].name
               THEN /\ Len(Diags') = Len(Diags) + 1
                    /\ Diags'[Len(Diags')].level = "error"
                    /\ Diags'[Len(Diags')].msg = "expected label"
               ELSE Diags' = Diags]_vars

\* A named program was closed with another name, and one with its own name
\* or none: the first is reported, the second is not.
EndMainProgramPopsOnceWitness ==
  /\ abnormal = "none"
  /\ CurContext = TUDecl
  /\ Len(Diags) = 1 /\ Diags[1].msg = "expected label"
  /\ \E p, q \in 1..Len(Decls) :
       /\ p < q
       /\ Decls[p].kind = "MainProgram" /\ Decls[q].kind = "MainProgram"
       /\ Decls[p].name # NullId /\ Decls[q].name # NullId
       /\ Diags[1].name = Decls[p].name
       /\ Diags[1].loc > Decls[p].loc /\ Diags[1].loc < Decls[q].loc

\* ------------------------------------------------------------------------
\* The unique variable declarations
\* ------------------------------------------------------------------------
VarDeclCalls(fn) == {c \in TypeLog : c.req = fn}

\* The calls of getOrCreateVarDecl made before call c.
CreatedBefore(c) == {g \in VarDeclCalls("getOrCreateVarDecl") : g.n < c.n}

\* C25: over any sequence of calls on one context, getOrCreateVarDecl returns
\* a non-null declaration, the same one for the same identifier whatever the
\* location and the declaration specifier, and different ones for different
\* identifiers; getVarDecl returns that declaration exactly when
\* getOrCreateVarDecl was called for the identifier before and null otherwise,
\* and a getVarDecl step leaves the context as it was.
VarDeclsAreUnique ==
  [][/\ \A g, h \in VarDeclCalls("getOrCreateVarDecl")' :
          /\ g.R # NullDecl
          /\ (g.name = h.name) <=> (g.R = h.R)
     /\ \A c \in VarDeclCalls("getVarDecl")' :
          IF \E g \in CreatedBefore(c)' : g.name = c.name
          THEN \A g \in CreatedBefore(c)' : g.name = c.name => c.R = g.R
          ELSE c.R = NullDecl
     /\ (\E Info \in Names : GetVarDecl(Info)) => Ctx' = Ctx]_vars

\* getOrCreateVarDecl was called twice for one identifier, only the first call
\* created a declaration, and a later getVarDecl returned that declaration.
VarDeclsAreUniqueWitness ==
  /\ \E g, h \in VarDeclCalls("getOrCreateVarDecl") :
       /\ g.n < h.n
       /\ g.name = h.name
       /\ Ctx.VariableDecls[g.R].loc = 1
       /\ Len(Ctx.VariableDecls) = 1
       /\ \E c \in VarDeclCalls("getVarDecl") : c.n > g.n /\ c.R = g.R
  /\ Cardinality(TypeLog) = MaxCalls

\* ------------------------------------------------------------------------
\* Fields of a derived type
\* ------------------------------------------------------------------------
\* The fields of context DC with the name IDInfo.
FieldsNamed(D, DC, IDInfo) ==
  {i \in DOMAIN D[DC].decls :
     D[D[DC].decls[i]].kind = "Field" /\ D[D[DC].decls[i]].name = IDInfo}

\* C26: a step of ActOnDerivedTypeFieldDecl in a current context appends one
\* new field declaration of the given name to that context's list; every
\* other declaration and every other context's list, the binding of every
\* name (the field's own included), the current context, the statements and
\* the diagnostics stay as they were, also when the context already has a
\* field of that name.
FieldDeclOnlyAppends ==
  [][\A ds \in DeclSpecs :
       (CurContext # NullDecl /\ ActOnDerivedTypeFieldDecl(ds, IdLowerI)) =>
         /\ Len(Decls') = Len(Decls) + 1
         /\ Decls'[Len(Decls')].kind = "Field"
         /\ Decls'[Len(Decls')].name = IdLowerI
         /\ Decls'[Len(Decls')].ctx = CurContext
         /\ Decls'[CurContext].decls = Append(Decls[CurContext].decls, Len(Decls'))
         /\ \A d \in DOMAIN Decls :
              Decls'[d] = IF d = CurContext
                          THEN [Decls[d] EXCEPT !.decls = Append(@, Len(Decls'))]
                          ELSE Decls[d]
         /\ FETokenInfo' = FETokenInfo
         /\ CurContext' = CurContext
         /\ Diags' = Diags /\ Engine' = Engine
         /\ Stmts' = Stmts /\ PushInfo' = PushInfo /\ abnormal' = abnormal]_vars

\* The current context is a record with two fields of one name, and nothing
\* was reported.
FieldDeclOnlyAppendsWitness ==
  /\ CurContext # NullDecl
  /\ Decls[CurContext].kind = "Record"
  /\ Cardinality(FieldsNamed(Decls, CurContext, IdLowerI)) >= 2
  /\ Diags = <<>>
  /\ Running

\* ------------------------------------------------------------------------
\* Diagnostic mappings
\* ------------------------------------------------------------------------
\* The mapping of diagnostic d in the current diagnostic state.
CurMapping(E, d) == E.DiagStates[GetCurDiagState(E)][d]

\* C27: when a diagnostic is mapped to error or fatal in the current state, a
\* step that asks for its mapping to warning, at whatever location, leaves it
\* mapped to that level in the state that is current afterwards.
WarningKeepsErrorMapping ==
  [][\A d \in DiagKinds, L \in MappingLocs :
       (/\ CurMapping(Engine, d) \in {"MAP_ERROR", "MAP_FATAL"}
        /\ SetDiagnosticMapping(d, "MAP_WARNING", L))
       => CurMapping(Engine', d) = CurMapping(Engine, d)]_vars

\* The diagnostic is mapped to fatal in a state that became current at the
\* second place, after an earlier state change at the first place.
WarningKeepsErrorMappingWitness ==
  /\ Len(Engine.DiagStatePoints) = 3
  /\ Engine.DiagStatePoints[2].Loc = 1
  /\ Engine.DiagStatePoints[3].Loc = 2
  /\ CurMapping(Engine, "warn_a") = "MAP_FATAL"
  /\ CurMapping(Engine, "warn_b") = "MAP_ERROR"

\* C28: the vector DiagStatePoints is ordered by location, each point at or
\* after the one before it.
DiagStatePointsOrdered ==
  \A i \in 1..(Len(Engine.DiagStatePoints) - 1) :
    Engine.DiagStatePoints[i].Loc <= Engine.DiagStatePoints[i + 1].Loc

\* ------------------------------------------------------------------------
\* The delayed diagnostic
\* ------------------------------------------------------------------------
DelayedPending(E) == E.DelayedDiagID # 0

\* C29: an emission that is not forced, of a diagnostic other than the pending
\* delayed one, hands the client that diagnostic and then the delayed one,
\* once, with its two arguments, and leaves no delayed diagnostic pending: the
\* id is 0 and both arguments are empty; a forced emission hands the client
\* its diagnostic alone and leaves the delayed id and arguments as they were.
DelayedEmittedOnce ==
  [][\A id \in DiagIDs, a \in DiagArgs, Force \in BOOLEAN :
       (DelayedPending(Engine) /\ Emit(id, a, Force)) =>
         IF Force
         THEN /\ Len(Diags') = Len(Diags) + 1
              /\ Engine'.DelayedDiagID = Engine.DelayedDiagID
              /\ Engine'.DelayedDiagArg1 = Engine.DelayedDiagArg1
              /\ Engine'.DelayedDiagArg2 = Engine.DelayedDiagArg2
         ELSE Engine.DelayedDiagID # id =>
              /\ Len(Diags') = Len(Diags) + 2
              /\ SubSeq(Diags', 1, Len(Diags)) = Diags
              /\ Diags'[Len(Diags) + 1].msg = DiagTexts[id]
              /\ Diags'[Len(Diags) + 1].name = a
              /\ Diags'[Len(Diags) + 2].msg = DiagTexts[Engine.DelayedDiagID]
              /\ Diags'[Len(Diags) + 2].name =
                   Engine.DelayedDiagArg1 \o Engine.DelayedDiagArg2
              /\ Engine'.DelayedDiagID = 0
              /\ Engine'.DelayedDiagArg1 = <<>>
              /\ Engine'.DelayedDiagArg2 = <<>>
              /\ Engine'.CurDiagID = NoCurDiag]_vars

\* The client received the first diagnostic and then the second with two
\* arguments, as only a delayed diagnostic has them, and nothing is pending.
DelayedEmittedOnceWitness ==
  /\ Len(Diags) = 2
  /\ Diags[1].msg = "first"
  /\ Diags[2].msg = "second"
  /\ Diags[2].name = IdLowerI \o IdLowerI
  /\ ~DelayedPending(Engine)
  /\ Engine.DelayedDiagArg1 = <<>>

\* ------------------------------------------------------------------------
\* Format strings
\* ------------------------------------------------------------------------
\* The format strings of text and %% alone, and what they stand for: every %%
\* is one %.
RECURSIVE PercentEscapesOnly(_)
PercentEscapesOnly(f) ==
  IF f = <<>> THEN TRUE
  ELSE IF f[1] # "%" THEN PercentEscapesOnly(Tail(f))
  ELSE Len(f) >= 2 /\ f[2] = "%" /\ PercentEscapesOnly(DropFirst(f, 2))

RECURSIVE Unescaped(_)
Unescaped(f) ==
  IF f = <<>> THEN <<>>
  ELSE IF f[1] # "%" THEN <<f[1]>> \o Unescaped(Tail(f))
  ELSE <<"%">> \o Unescaped(DropFirst(f, 2))

\* C30: formatting a string of text and %% sequences hands the client the
\* text with one % for every %%, in every build; text without % is handed
\* over as it is.
PercentPercentIsLiteral ==
  [][\A f \in Formats, b \in Builds, g \in GarbageArgs :
       (PercentEscapesOnly(f) /\ Format(f, b, g)) =>
         /\ abnormal' = "none"
         /\ Len(Diags') = Len(Diags) + 1
         /\ Diags'[Len(Diags')].msg = Unescaped(f)]_vars

====
